---- MODULE Spec2Model ----
(***************************************************************************)
(* Model of the loosh-farm processing-and-scoring core:                    *)
(*   - processors/dedup.py      Deduplicator (session state _seen_hashes)  *)
(*   - collectors/base.py       CollectedItem.combined_text                *)
(*   - scoring/loosh_index.py   LooshIndexCalculator.calculate             *)
(*   - models/emotion.py        EmotionAnalyzer                            *)
(*   - scoring/aggregator.py    Aggregator.aggregate                       *)
(*   - processors/cleaner.py    TextCleaner                                *)
(*   - processors/pipeline.py   ProcessingPipeline.process                 *)
(*                                                                         *)
(* Text is a sequence of one-character strings.  Real numbers are exact    *)
(* rationals <<num, den>> with den > 0, kept in lowest terms; binary       *)
(* floating-point representation error is not modelled.  sha256 is         *)
(* modelled as collision free: a digest is identified with the string it   *)
(* was computed from.                                                      *)
(***************************************************************************)
EXTENDS Integers, Sequences, FiniteSets, TLC

(***************************************************************************)
(* Bounds of the model                                                     *)
(***************************************************************************)
\* items handed to one Deduplicator over its life, all calls together
MaxItems == 3
\* entries of an AggregatedResult's source_breakdown
MaxSources == 2
\* largest items_analyzed of an AggregatedResult
MaxAnalyzed == 1
\* items handed to one aggregate call
MaxAggItems == 3
\* largest min_length and max_length of a TextCleaner
MaxMinLength == 3
MaxMaxLength == 8

\* items in one process call
MaxPipeItems == 2

\* items in the deduplicate call of one thread
MaxRaceItems == 2

(***************************************************************************)
(* Characters and strings                                                  *)
(***************************************************************************)
\* Python's None for an Optional[str] field, distinct from every string.
None == <<"None">>

\* str.lower() on one character.
AsciiUpperSeq == <<"A", "B", "C", "D", "E", "F", "G", "H", "I", "J", "K", "L", "M",
                   "N", "O", "P", "Q", "R", "S", "T", "U", "V", "W", "X", "Y", "Z">>

AsciiLowerSeq == <<"a", "b", "c", "d", "e", "f", "g", "h", "i", "j", "k", "l", "m",
                   "n", "o", "p", "q", "r", "s", "t", "u", "v", "w", "x", "y", "z">>

\* the lower-case letter of every upper-case one
LowerOf ==
    [c \in { AsciiUpperSeq[i] : i \in 1..26 } |->
        AsciiLowerSeq[CHOOSE i \in 1..26 : AsciiUpperSeq[i] = c]]

Lower(c) == IF c \in DOMAIN LowerOf THEN LowerOf[c] ELSE c

\* The characters that _NORMALIZE_RE = [^a-z0-9 ] leaves alone.
KeptChars ==
    { AsciiLowerSeq[i] : i \in 1..26 }
        \cup {"0", "1", "2", "3", "4", "5", "6", "7", "8", "9", " "}

\* The characters \s matches (and str.strip() removes).
SpaceChars == {" ", "\t", "\n"}

\* re.sub(r"\s+", " ", s): every maximal run of whitespace becomes one space.
RECURSIVE CollapseSpaces(_)
CollapseSpaces(s) ==
    IF s = <<>> THEN <<>>
    ELSE IF Head(s) \in SpaceChars
         THEN IF Len(s) > 1 /\ s[2] \in SpaceChars
              THEN CollapseSpaces(Tail(s))
              ELSE <<" ">> \o CollapseSpaces(Tail(s))
         ELSE <<Head(s)>> \o CollapseSpaces(Tail(s))

RECURSIVE LStrip(_)
LStrip(s) == IF s # <<>> /\ Head(s) \in SpaceChars THEN LStrip(Tail(s)) ELSE s

RECURSIVE RStrip(_)
RStrip(s) == IF s # <<>> /\ s[Len(s)] \in SpaceChars
             THEN RStrip(SubSeq(s, 1, Len(s) - 1)) ELSE s

\* str.strip()
Strip(s) == RStrip(LStrip(s))

(***************************************************************************)
(* collectors/base.py                                                      *)
(***************************************************************************)
\* " ".join(parts)
combined_text(item) ==
    LET hasTitle == item.title # None /\ item.title # <<>>
        hasText  == item.text # None /\ item.text # <<>>
    IN  IF hasTitle /\ hasText THEN item.title \o <<" ">> \o item.text
        ELSE IF hasTitle THEN item.title
        ELSE IF hasText THEN item.text
        ELSE <<>>

(***************************************************************************)
(* processors/dedup.py                                                     *)
(***************************************************************************)
normalize_for_hash_nolower(text) ==
    LET subbed == [i \in 1..Len(text) |->
                      IF text[i] \in KeptChars THEN text[i] ELSE " "]
    IN  Strip(CollapseSpaces(subbed))

\* the characters outside [a-z0-9 ] are deleted
normalize_for_hash_delete(text) ==
    LET lowered == [i \in 1..Len(text) |-> Lower(text[i])]
    IN  Strip(CollapseSpaces(SelectSeq(lowered, LAMBDA c : c \in KeptChars)))

normalize_for_hash(text) ==
    LET lowered == [i \in 1..Len(text) |-> Lower(text[i])]
        subbed  == [i \in 1..Len(lowered) |->
                      IF lowered[i] \in KeptChars THEN lowered[i] ELSE " "]
    IN  Strip(CollapseSpaces(subbed))

\* hashlib.sha256(normalized).hexdigest(), collision free
content_hash(text) == normalize_for_hash(text)

\* n = 3
ngram_fingerprint(text) ==
    LET normalized == normalize_for_hash(text)
    IN  IF Len(normalized) < 3 THEN {normalized}
        ELSE {SubSeq(normalized, i, i + 2) : i \in 1..(Len(normalized) - 2)}

\* intersection / union as the rational <<intersection, union>>; 0.0 is <<0, 1>>
jaccard_similarity(set_a, set_b) ==
    IF set_a = {} \/ set_b = {} THEN <<0, 1>>
    ELSE LET intersection == Cardinality(set_a \cap set_b)
             union        == Cardinality(set_a \cup set_b)
         IN  IF union > 0 THEN <<intersection, union>> ELSE <<0, 1>>

\* q >= r for rationals with positive denominators
RatGeq(q, r) == q[1] * r[2] >= r[1] * q[2]

\* The test of line 70 against every fingerprint recorded so far in the call.
IsNearDupStrict(fp, fingerprints, threshold) ==
    \E j \in 1..Len(fingerprints) :
        ~RatGeq(threshold, jaccard_similarity(fp, fingerprints[j]))

\* the intersection measured against the item's own fingerprint
IsNearDupOwnSize(fp, fingerprints, threshold) ==
    \E j \in 1..Len(fingerprints) :
        RatGeq(<<Cardinality(fp \cap fingerprints[j]), Cardinality(fp)>>, threshold)

IsNearDup(fp, fingerprints, threshold) ==
    \E j \in 1..Len(fingerprints) :
        RatGeq(jaccard_similarity(fp, fingerprints[j]), threshold)

\* One iteration of the for loop of deduplicate on items[i]; st carries
\* _seen_hashes (seen), the local lists fingerprints and unique, and idx, the
\* input positions of the items appended to unique.
DedupStepPrepend(items, i, st, threshold) ==
    LET item     == items[i]
        combined == combined_text(item)
        h        == content_hash(combined)
        fp       == ngram_fingerprint(combined)
    IN  IF Strip(combined) = <<>> THEN st
        ELSE IF h \in st.seen THEN st
        ELSE IF IsNearDup(fp, st.fingerprints, threshold) THEN st
        ELSE [seen         |-> st.seen \cup {h},
              fingerprints |-> Append(st.fingerprints, fp),
              unique       |-> <<item>> \o st.unique,
              idx          |-> Append(st.idx, i)]

\* the digest test of lines 63-64 left out
passes_checks_no_hash(seen, fingerprints, threshold, item) ==
    LET combined == combined_text(item)
    IN  /\ Strip(combined) # <<>>
        /\ ~IsNearDup(ngram_fingerprint(combined), fingerprints, threshold)

\* Lines 55-76 of deduplicate for one item: TRUE when the loop body goes on
\* to line 78 and records the item, FALSE when it continues with the next.
passes_checks(seen, fingerprints, threshold, item) ==
    LET combined == combined_text(item)
    IN  /\ Strip(combined) # <<>>
        /\ content_hash(combined) \notin seen
        /\ ~IsNearDup(ngram_fingerprint(combined), fingerprints, threshold)

\* the digest is recorded before the near-duplicate test
DedupStepRecordEarly(items, i, st, threshold) ==
    LET item     == items[i]
        combined == combined_text(item)
        h        == content_hash(combined)
        fp       == ngram_fingerprint(combined)
    IN  IF Strip(combined) = <<>> THEN st
        ELSE IF h \in st.seen THEN st
        ELSE IF IsNearDup(fp, st.fingerprints, threshold)
             THEN [st EXCEPT !.seen = @ \cup {h}]
        ELSE [seen         |-> st.seen \cup {h},
              fingerprints |-> Append(st.fingerprints, fp),
              unique       |-> Append(st.unique, item),
              idx          |-> Append(st.idx, i)]

\* no test for a blank combined text
DedupStepNoBlankTest(items, i, st, threshold) ==
    LET item     == items[i]
        combined == combined_text(item)
        h        == content_hash(combined)
        fp       == ngram_fingerprint(combined)
    IN  IF h \in st.seen THEN st
        ELSE IF IsNearDup(fp, st.fingerprints, threshold) THEN st
        ELSE [seen         |-> st.seen \cup {h},
              fingerprints |-> Append(st.fingerprints, fp),
              unique       |-> Append(st.unique, item),
              idx          |-> Append(st.idx, i)]

DedupStep(items, i, st, threshold) ==
    LET item     == items[i]
        combined == combined_text(item)
        h        == content_hash(combined)
        fp       == ngram_fingerprint(combined)
    IN  IF Strip(combined) = <<>> THEN st
        ELSE IF h \in st.seen THEN st
        ELSE IF IsNearDup(fp, st.fingerprints, threshold) THEN st
        ELSE [seen         |-> st.seen \cup {h},
              fingerprints |-> Append(st.fingerprints, fp),
              unique       |-> Append(st.unique, item),
              idx          |-> Append(st.idx, i)]

RECURSIVE DedupLoop(_, _, _, _)
DedupLoop(items, i, st, threshold) ==
    IF i > Len(items) THEN st
    ELSE DedupLoop(items, i + 1, DedupStep(items, i, st, threshold), threshold)

\* every call starts from an empty _seen_hashes
deduplicate_fresh(seen, threshold, items) ==
    DedupLoop(items, 1,
              [seen |-> {}, fingerprints |-> <<>>, unique |-> <<>>, idx |-> <<>>],
              threshold)

\* Deduplicator.deduplicate on an instance whose _seen_hashes is seen:
\* unique and fingerprints start empty on every call.
deduplicate(seen, threshold, items) ==
    DedupLoop(items, 1,
              [seen |-> seen, fingerprints |-> <<>>, unique |-> <<>>, idx |-> <<>>],
              threshold)

\* Deduplicator.reset: self._seen_hashes.clear()
reset_keep(seen) == seen

reset(seen) == {}

(***************************************************************************)
(* Exact arithmetic on rationals <<num, den>>, den > 0, lowest terms       *)
(***************************************************************************)
Abs(n) == IF n < 0 THEN -n ELSE n

RECURSIVE GCD(_, _)
GCD(a, b) == IF b = 0 THEN a ELSE GCD(b, a % b)

RNorm(n, d) == LET g == GCD(Abs(n), d) IN <<n \div g, d \div g>>

R(n, d) == RNorm(n, d)

RAdd(q, r) == RNorm(q[1] * r[2] + r[1] * q[2], q[2] * r[2])

RSub(q, r) == RNorm(q[1] * r[2] - r[1] * q[2], q[2] * r[2])

RMul(q, r) == LET g1 == GCD(Abs(q[1]), r[2])
                  g2 == GCD(Abs(r[1]), q[2])
              IN  RNorm((q[1] \div g1) * (r[1] \div g2),
                        (q[2] \div g2) * (r[2] \div g1))

\* q / r for r > 0
RDiv(q, r) == RMul(q, <<r[2], r[1]>>)

RLt(q, r) == q[1] * r[2] < r[1] * q[2]

RLeq(q, r) == q[1] * r[2] <= r[1] * q[2]

RMin(q, r) == IF RLt(r, q) THEN r ELSE q

RMax(q, r) == IF RLt(q, r) THEN r ELSE q

\* round(q, ndigits) with scale = 10^ndigits: the nearest multiple of
\* 1/scale, a tie going to the even multiple
RoundTo(q, scale) ==
    LET n == q[1] * scale
        d == q[2]
        f == n \div d
        rem == n - f * d
        k == IF 2 * rem < d THEN f
             ELSE IF 2 * rem > d THEN f + 1
             ELSE IF f % 2 = 0 THEN f ELSE f + 1
    IN  RNorm(k, scale)

(***************************************************************************)
(* scoring/loosh_index.py                                                  *)
(***************************************************************************)
EMOTION_CATEGORIES ==
    <<"joy", "anger", "fear", "sadness", "surprise", "disgust", "trust", "anticipation">>

Categories == { EMOTION_CATEGORIES[i] : i \in 1..Len(EMOTION_CATEGORIES) }

\* dict.get(key, 0.0)
GetOr0(dict, key) == IF key \in DOMAIN dict THEN dict[key] ELSE <<0, 1>>

\* sum(score * polarity) over the items of an emotions dict, in the order of
\* its keys (the aggregator inserts them in EMOTION_CATEGORIES order)
RECURSIVE EmotionLoop(_, _, _, _)
EmotionLoop(emotion_polarity, emotions, i, acc) ==
    IF i > Len(EMOTION_CATEGORIES) THEN acc
    ELSE LET emotion == EMOTION_CATEGORIES[i]
         IN  IF emotion \in DOMAIN emotions
             THEN EmotionLoop(emotion_polarity, emotions, i + 1,
                              RAdd(acc, RMul(emotions[emotion],
                                             GetOr0(emotion_polarity, emotion))))
             ELSE EmotionLoop(emotion_polarity, emotions, i + 1, acc)

EmotionSignal(emotion_polarity, emotions) ==
    EmotionLoop(emotion_polarity, emotions, 1, <<0, 1>>)

\* emotion_components of step 1
EmotionComponents(emotion_polarity, emotions) ==
    [emotion \in DOMAIN emotions |->
        [score        |-> emotions[emotion],
         polarity     |-> GetOr0(emotion_polarity, emotion),
         contribution |-> RoundTo(RMul(emotions[emotion],
                                       GetOr0(emotion_polarity, emotion)), 10000)]]

\* positive and negative exchanged
SentimentAmplifierFlipped(sentiment) ==
    RAdd(<<1, 1>>, RMul(RSub(GetOr0(sentiment, "positive"),
                             GetOr0(sentiment, "negative")), <<1, 2>>))

\* step 2
SentimentAmplifier(sentiment) ==
    RAdd(<<1, 1>>, RMul(RSub(GetOr0(sentiment, "negative"),
                             GetOr0(sentiment, "positive")), <<1, 2>>))

\* One pass of the loop of step 3 over an entry of source_breakdown; every
\* source counts as one in the divisor.
SourceStepPlainAverage(cfg, acc, entry) ==
    LET weight == GetOr0(cfg.source_weights, entry.source)
    IN  IF RLeq(weight, <<0, 1>>) THEN acc
        ELSE [weighted_signal |->
                  RAdd(acc.weighted_signal,
                       RMul(EmotionSignal(cfg.emotion_polarity, entry.emotions), weight)),
              total_weight |-> RAdd(acc.total_weight, <<1, 1>>)]

SourceStep(cfg, acc, entry) ==
    LET weight == GetOr0(cfg.source_weights, entry.source)
    IN  IF RLeq(weight, <<0, 1>>) THEN acc
        ELSE [weighted_signal |->
                  RAdd(acc.weighted_signal,
                       RMul(EmotionSignal(cfg.emotion_polarity, entry.emotions), weight)),
              total_weight |-> RAdd(acc.total_weight, weight)]

RECURSIVE SourceLoop(_, _, _, _)
SourceLoop(cfg, breakdown, i, acc) ==
    IF i > Len(breakdown) THEN acc
    ELSE SourceLoop(cfg, breakdown, i + 1, SourceStep(cfg, acc, breakdown[i]))

\* step 3: the emotion signal after the source-weighted adjustment
SourceAdjusted(cfg, aggregated, emotion_signal) ==
    IF Len(aggregated.source_breakdown) > 0 /\ DOMAIN cfg.source_weights # {}
    THEN LET acc == SourceLoop(cfg, aggregated.source_breakdown, 1,
                               [weighted_signal |-> <<0, 1>>, total_weight |-> <<0, 1>>])
         IN  IF RLt(<<0, 1>>, acc.total_weight)
             THEN RDiv(acc.weighted_signal, acc.total_weight)
             ELSE emotion_signal
    ELSE emotion_signal

\* step 4
RawIndex(cfg, emotion_signal, sentiment_amplifier) ==
    RAdd(cfg.baseline, RMul(RMul(emotion_signal, sentiment_amplifier), <<25, 1>>))

\* only the lower bound is applied
ClampLowOnly(cfg, raw_index) == RMax(cfg.scale_min, RoundTo(raw_index, 10))

\* step 5: max(scale_min, min(scale_max, round(raw_index, 1)))
Clamp(cfg, raw_index) ==
    RMax(cfg.scale_min, RMin(cfg.scale_max, RoundTo(raw_index, 10)))

\* every band takes its upper threshold in
label_upper_inclusive(index) ==
    IF RLeq(index, <<20, 1>>) THEN "Very Calm"
    ELSE IF RLeq(index, <<35, 1>>) THEN "Calm"
    ELSE IF RLeq(index, <<45, 1>>) THEN "Slightly Calm"
    ELSE IF RLeq(index, <<55, 1>>) THEN "Neutral"
    ELSE IF RLeq(index, <<65, 1>>) THEN "Slightly Elevated"
    ELSE IF RLeq(index, <<75, 1>>) THEN "Elevated"
    ELSE IF RLeq(index, <<85, 1>>) THEN "High"
    ELSE "Very High"

\* LooshIndexCalculator._label
label(index) ==
    IF RLt(index, <<20, 1>>) THEN "Very Calm"
    ELSE IF RLt(index, <<35, 1>>) THEN "Calm"
    ELSE IF RLt(index, <<45, 1>>) THEN "Slightly Calm"
    ELSE IF RLt(index, <<55, 1>>) THEN "Neutral"
    ELSE IF RLt(index, <<65, 1>>) THEN "Slightly Elevated"
    ELSE IF RLt(index, <<75, 1>>) THEN "Elevated"
    ELSE IF RLt(index, <<85, 1>>) THEN "High"
    ELSE "Very High"

\* components={}
NoComponents == [k \in {} |-> <<0, 1>>]

\* The body of calculate after the items_analyzed test.  signal, amplifier and
\* raw are the local variables emotion_signal, sentiment_amplifier and
\* raw_index as they stand when the score is built.
Scored(cfg, aggregated) ==
    LET corpus_signal       == EmotionSignal(cfg.emotion_polarity, aggregated.emotions)
        sentiment_amplifier == SentimentAmplifier(aggregated.sentiment)
        emotion_signal      == SourceAdjusted(cfg, aggregated, corpus_signal)
        raw_index           == RawIndex(cfg, emotion_signal, sentiment_amplifier)
        index               == Clamp(cfg, raw_index)
    IN  [index      |-> index,
         label      |-> label(index),
         components |->
             [emotion_signal      |-> RoundTo(emotion_signal, 10000),
              sentiment_amplifier |-> RoundTo(sentiment_amplifier, 10000),
              baseline            |-> cfg.baseline,
              raw_index           |-> RoundTo(raw_index, 100),
              emotion_breakdown   |->
                  EmotionComponents(cfg.emotion_polarity, aggregated.emotions)],
         signal     |-> emotion_signal,
         amplifier  |-> sentiment_amplifier,
         raw        |-> raw_index]

NoData(cfg) ==
    [index |-> cfg.baseline, label |-> "No Data", components |-> NoComponents,
     signal |-> <<0, 1>>, amplifier |-> <<0, 1>>, raw |-> <<0, 1>>]

\* calculate without the items_analyzed test
calculate_always_scores(cfg, aggregated) == Scored(cfg, aggregated)

\* LooshIndexCalculator.calculate
calculate(cfg, aggregated) ==
    IF aggregated.items_analyzed = 0 THEN NoData(cfg) ELSE Scored(cfg, aggregated)

(***************************************************************************)
(* models/emotion.py                                                       *)
(***************************************************************************)
\* [a-z]
AsciiLower == { AsciiLowerSeq[i] : i \in 1..26 }

\* the characters \w matches in a lowered string
WordChars == AsciiLower \cup {"0", "1", "2", "3", "4", "5", "6", "7", "8", "9", "_"}

\* text.lower()
LowerText(text) == [i \in 1..Len(text) |-> Lower(text[i])]

\* a finished run of word characters is a match of \b[a-z]+\b when all of it
\* is in a-z
RunMatch(cur, ok) == IF cur # <<>> /\ ok THEN <<cur>> ELSE <<>>

\* _WORD_RE.findall(s): cur is the run of word characters being read, ok says
\* that all of them are in a-z
RECURSIVE WordScan(_, _, _)
WordScan(s, cur, ok) ==
    IF s = <<>> THEN RunMatch(cur, ok)
    ELSE IF Head(s) \in WordChars
         THEN WordScan(Tail(s), Append(cur, Head(s)), ok /\ Head(s) \in AsciiLower)
         ELSE RunMatch(cur, ok) \o WordScan(Tail(s), <<>>, TRUE)

FindWords(s) == WordScan(s, <<>>, TRUE)

\* _WORD_TO_EMOTIONS restricted to the lexicon words the model's texts use;
\* <<>> stands for a word that is no key of the dict
WORD_TO_EMOTIONS(word) ==
    CASE word = <<"j", "o", "y">>           -> <<"joy">>
      [] word = <<"w", "a", "r">>           -> <<"anger">>
      [] word = <<"s", "a", "d">>           -> <<"sadness">>
      [] word = <<"f", "e", "a", "r">>      -> <<"fear">>
      [] word = <<"p", "e", "a", "c", "e">> -> <<"joy", "trust">>
      [] OTHER                              -> <<>>

\* how often emotion occurs in a list of emotions
CountIn(list, emotion) == Cardinality({i \in DOMAIN list : list[i] = emotion})

\* a word counts for the first of its categories only
CountHitsFirstOnly(words, counts) ==
    [e \in Categories |->
        Cardinality({i \in DOMAIN words :
                        /\ WORD_TO_EMOTIONS(words[i]) # <<>>
                        /\ WORD_TO_EMOTIONS(words[i])[1] = e})]

\* the loop over words: emotion_counts as a function on the categories
RECURSIVE CountHits(_, _)
CountHits(words, counts) ==
    IF words = <<>> THEN counts
    ELSE CountHits(Tail(words),
                   [e \in Categories |->
                       counts[e] + CountIn(WORD_TO_EMOTIONS(Head(words)), e)])

RECURSIVE TotalHits(_)
TotalHits(words) ==
    IF words = <<>> THEN 0
    ELSE Len(WORD_TO_EMOTIONS(Head(words))) + TotalHits(Tail(words))

\* the later of two equal maxima wins
MaxLoopLast(scores, i, best) ==
    LET k == CHOOSE j \in 1..Len(EMOTION_CATEGORIES) :
                 /\ \A m \in 1..Len(EMOTION_CATEGORIES) :
                        RLeq(scores[EMOTION_CATEGORIES[m]], scores[EMOTION_CATEGORIES[j]])
                 /\ \A m \in (j + 1)..Len(EMOTION_CATEGORIES) :
                        RLt(scores[EMOTION_CATEGORIES[m]], scores[EMOTION_CATEGORIES[j]])
    IN  EMOTION_CATEGORIES[k]

\* max(scores, key=scores.get) over a dict whose keys were inserted in
\* EMOTION_CATEGORIES order: a later key replaces the best one only when its
\* value is strictly greater
RECURSIVE MaxLoop(_, _, _)
MaxLoop(scores, i, best) ==
    IF i > Len(EMOTION_CATEGORIES) THEN best
    ELSE IF RLt(scores[best], scores[EMOTION_CATEGORIES[i]])
         THEN MaxLoop(scores, i + 1, EMOTION_CATEGORIES[i])
         ELSE MaxLoop(scores, i + 1, best)

MaxKey(scores) == MaxLoop(scores, 2, EMOTION_CATEGORIES[1])

\* round(1.0 / len(EMOTION_CATEGORIES), 4) for every category
UniformScores == [e \in Categories |-> RoundTo(R(1, Len(EMOTION_CATEGORIES)), 10000)]

\* scores of _analyze_lexicon
LexiconScores(counts, total_hits) ==
    IF total_hits > 0
    THEN [e \in Categories |-> RoundTo(R(counts[e], total_hits), 10000)]
    ELSE UniformScores

\* EmotionAnalyzer._analyze_lexicon
analyze_lexicon(text) ==
    LET words      == FindWords(LowerText(text))
        counts     == CountHits(words, [e \in Categories |-> 0])
        total_hits == TotalHits(words)
        scores     == LexiconScores(counts, total_hits)
    IN  [scores           |-> scores,
         dominant_emotion |-> IF total_hits > 0 THEN MaxKey(scores) ELSE "neutral"]

\* the labels of the classification model that label_map maps to a category
MappedLabels == {"joy", "anger", "fear", "sadness", "surprise", "disgust"}

\* the scores before the division by their total
TransformerScores(results) ==
    [e \in Categories |->
        IF e \in MappedLabels /\ e \in DOMAIN results
        THEN RoundTo(results[e], 10000) ELSE <<0, 1>>]

\* sum(scores.values())
RECURSIVE ScoreTotal(_, _)
ScoreTotal(scores, i) ==
    IF i > Len(EMOTION_CATEGORIES) THEN <<0, 1>>
    ELSE RAdd(scores[EMOTION_CATEGORIES[i]], ScoreTotal(scores, i + 1))

\* the division by the total is left out
NormalizeScoresNot(scores, fallback) == scores

\* {k: round(v / total, 4)} when the total is positive, else the fallback
NormalizeScores(scores, fallback) ==
    LET total == ScoreTotal(scores, 1)
    IN  IF RLt(<<0, 1>>, total)
        THEN [k \in DOMAIN scores |-> RoundTo(RDiv(scores[k], total), 10000)]
        ELSE fallback

\* EmotionAnalyzer._analyze_transformer; results is what the classification
\* pipeline returned for text[:512], a score for each of its labels
analyze_transformer(results) ==
    LET scores == NormalizeScores(TransformerScores(results), UniformScores)
    IN  [scores |-> scores, dominant_emotion |-> MaxKey(scores)]

(***************************************************************************)
(* scoring/aggregator.py                                                   *)
(***************************************************************************)
RECURSIVE SeqSum(_)
SeqSum(xs) == IF xs = <<>> THEN <<0, 1>> ELSE RAdd(Head(xs), SeqSum(Tail(xs)))

\* the sum is divided by the number of non-zero values
MeanOfNonZero(xs, n) ==
    LET k == Cardinality({i \in DOMAIN xs : xs[i] # <<0, 1>>})
    IN  RoundTo(RDiv(SeqSum(xs), <<IF k = 0 THEN n ELSE k, 1>>), 10000)

\* round(sum(xs) / n, 4)
RoundedMean(xs, n) == RoundTo(RDiv(SeqSum(xs), <<n, 1>>), 10000)

\* the values of one field over the positions idx of a list of results
FieldAt(results, idx, field) == [k \in 1..Len(idx) |-> results[idx[k]][field]]

\* e.scores.get(emotion, 0.0) over the positions idx
ScoresAt(emotions, idx, emotion) ==
    [k \in 1..Len(idx) |-> GetOr0(emotions[idx[k]].scores, emotion)]

SentimentMeans(sentiments, idx) ==
    [k \in {"positive", "neutral", "negative"} |->
        RoundedMean(FieldAt(sentiments, idx, k), Len(idx))]

EmotionMeans(emotions, idx) ==
    [e \in Categories |-> RoundedMean(ScoresAt(emotions, idx, e), Len(idx))]

\* the categories come in alphabetical order of the model's three names
SourceGroupsSorted(items, i, groups) ==
    LET present == {items[k].source_category : k \in 1..Len(items)}
        order   == <<"reddit", "rss_news", "rss_tech">>
        keep    == SelectSeq(order, LAMBDA c : c \in present)
    IN  [k \in 1..Len(keep) |->
            [source  |-> keep[k],
             indices |-> SelectSeq([j \in 1..Len(items) |-> j],
                                   LAMBDA j : items[j].source_category = keep[k])]]

\* source_groups[item.source_category].append(i) for every item: the groups
\* in the order their keys were inserted
RECURSIVE SourceGroups(_, _, _)
SourceGroups(items, i, groups) ==
    IF i > Len(items) THEN groups
    ELSE LET cat == items[i].source_category
         IN  IF \E g \in 1..Len(groups) : groups[g].source = cat
             THEN SourceGroups(items, i + 1,
                      [g \in 1..Len(groups) |->
                          IF groups[g].source = cat
                          THEN [groups[g] EXCEPT !.indices = Append(@, i)]
                          ELSE groups[g]])
             ELSE SourceGroups(items, i + 1,
                      Append(groups, [source |-> cat, indices |-> <<i>>]))

\* the dict source_breakdown as the list of its entries in insertion order
SourceBreakdown(source_weights, items, sentiments, emotions) ==
    LET groups == SourceGroups(items, 1, <<>>)
    IN  [g \in 1..Len(groups) |->
            [source    |-> groups[g].source,
             count     |-> Len(groups[g].indices),
             sentiment |-> SentimentMeans(sentiments, groups[g].indices),
             emotions  |-> EmotionMeans(emotions, groups[g].indices),
             weight    |-> GetOr0(source_weights, groups[g].source)]]

\* AggregatedResult()
EmptyResult ==
    [items_analyzed   |-> 0,
     sentiment        |-> [k \in {} |-> <<0, 1>>],
     emotions         |-> [k \in {} |-> <<0, 1>>],
     source_breakdown |-> <<>>,
     dominant_emotion |-> "neutral",
     avg_compound     |-> <<0, 1>>]

\* Aggregator.aggregate
aggregate(source_weights, items, sentiments, emotions) ==
    IF items = <<>> THEN EmptyResult
    ELSE LET n               == Len(items)
             all             == [i \in 1..n |-> i]
             global_emotions == NormalizeScores(EmotionMeans(emotions, all),
                                                EmotionMeans(emotions, all))
         IN  [items_analyzed   |-> n,
              sentiment        |-> SentimentMeans(sentiments, all),
              emotions         |-> global_emotions,
              source_breakdown |-> SourceBreakdown(source_weights, items,
                                                   sentiments, emotions),
              dominant_emotion |-> MaxKey(global_emotions),
              avg_compound     |-> RoundedMean(FieldAt(sentiments, all, "compound"), n)]

(***************************************************************************)
(* processors/cleaner.py                                                   *)
(***************************************************************************)
\* s starts with the characters of p
StartsWith(s, p) == Len(s) >= Len(p) /\ SubSeq(s, 1, Len(p)) = p

\* s without its first n characters
Drop(s, n) == SubSeq(s, n + 1, Len(s))

\* the character references html.unescape decodes among those the model's
\* texts use: the name or number after "&", and the character it stands for
CharRefs ==
    << [name |-> <<"l", "t">>,      char |-> "<"],
       [name |-> <<"g", "t">>,      char |-> ">"],
       [name |-> <<"a", "m", "p">>, char |-> "&"],
       [name |-> <<"#", "6", "0">>, char |-> "<"],
       [name |-> <<"#", "6", "2">>, char |-> ">"],
       [name |-> <<"#", "4", "7">>, char |-> "/"] >>

\* the references that s, the text after an "&", starts with
RefsAt(s) == {i \in DOMAIN CharRefs : StartsWith(s, CharRefs[i].name)}

\* html.unescape: a reference is replaced by its character, with the ";" that
\* follows it when there is one; the replacement is not decoded again
RECURSIVE Unescape(_)
Unescape(s) ==
    IF s = <<>> THEN <<>>
    ELSE IF Head(s) = "&" /\ RefsAt(Tail(s)) # {}
         THEN LET ref  == CharRefs[CHOOSE i \in RefsAt(Tail(s)) : TRUE]
                  rest == Drop(s, 1 + Len(ref.name))
              IN  <<ref.char>> \o
                  Unescape(IF rest # <<>> /\ Head(rest) = ";" THEN Tail(rest) ELSE rest)
         ELSE <<Head(s)>> \o Unescape(Tail(s))

\* position of the first ">" of s, 0 when there is none
FirstGt(s) ==
    IF \E j \in DOMAIN s : s[j] = ">"
    THEN CHOOSE j \in DOMAIN s : s[j] = ">" /\ \A k \in 1..(j - 1) : s[k] # ">"
    ELSE 0

\* _HTML_TAG_RE.sub(" ", s): "<", one or more characters other than ">", ">"
RECURSIVE StripTags(_)
StripTags(s) ==
    IF s = <<>> THEN <<>>
    ELSE IF Head(s) = "<" /\ FirstGt(s) > 2
         THEN <<" ">> \o StripTags(Drop(s, FirstGt(s)))
         ELSE <<Head(s)>> \o StripTags(Tail(s))

\* length of the longest prefix of s without whitespace: what \S+ takes
RECURSIVE NonSpaceRun(_)
NonSpaceRun(s) ==
    IF s = <<>> \/ Head(s) \in SpaceChars THEN 0 ELSE 1 + NonSpaceRun(Tail(s))

UrlPrefixes ==
    << <<"h", "t", "t", "p", "s", ":", "/", "/">>,
       <<"h", "t", "t", "p", ":", "/", "/">>,
       <<"w", "w", "w", ".">> >>

\* only the two schemes are recognised
UrlMatchSchemeOnly(s) ==
    IF \E i \in 1..2 : StartsWith(s, UrlPrefixes[i]) /\ NonSpaceRun(Drop(s, Len(UrlPrefixes[i]))) > 0
    THEN LET i == CHOOSE k \in 1..2 :
                      /\ StartsWith(s, UrlPrefixes[k])
                      /\ NonSpaceRun(Drop(s, Len(UrlPrefixes[k]))) > 0
         IN  Len(UrlPrefixes[i]) + NonSpaceRun(Drop(s, Len(UrlPrefixes[i])))
    ELSE 0

\* length of the match of https?://\S+|www\.\S+ at the start of s, 0 when
\* there is none
UrlMatch(s) ==
    IF \E i \in DOMAIN UrlPrefixes :
           /\ StartsWith(s, UrlPrefixes[i])
           /\ NonSpaceRun(Drop(s, Len(UrlPrefixes[i]))) > 0
    THEN LET i == CHOOSE k \in DOMAIN UrlPrefixes :
                      /\ StartsWith(s, UrlPrefixes[k])
                      /\ NonSpaceRun(Drop(s, Len(UrlPrefixes[k]))) > 0
         IN  Len(UrlPrefixes[i]) + NonSpaceRun(Drop(s, Len(UrlPrefixes[i])))
    ELSE 0

\* _URL_RE.sub("", s)
RECURSIVE RemoveUrls(_)
RemoveUrls(s) ==
    IF s = <<>> THEN <<>>
    ELSE IF UrlMatch(s) > 0
         THEN RemoveUrls(Drop(s, UrlMatch(s)))
         ELSE <<Head(s)>> \o RemoveUrls(Tail(s))

\* the characters _SPECIAL_CHARS_RE leaves alone: \w, \s and . , ! ? ; : ' " -
AllowedChars ==
    WordChars \cup DOMAIN LowerOf \cup SpaceChars
        \cup {".", ",", "!", "?", ";", ":", "'", "\"", "-"}

\* _SPECIAL_CHARS_RE.sub(" ", s)
RemoveSpecialChars(s) ==
    [i \in 1..Len(s) |-> IF s[i] \in AllowedChars THEN s[i] ELSE " "]

\* the ends are not trimmed
NormalizeWhitespaceNoStrip(s) == CollapseSpaces(s)

\* _MULTI_SPACE_RE.sub(" ", s).strip()
NormalizeWhitespace(s) == Strip(CollapseSpaces(s))

\* the text is never cut
TruncateNever(s, max) == s

\* text[:max_length] when len(text) > max_length, for max_length >= 0
Truncate(s, max) == IF Len(s) > max THEN SubSeq(s, 1, max) ELSE s

\* TextCleaner.clean: what it returns, and its local variable text before
\* and after the truncation
clean(min, max, text) ==
    IF text = None \/ text = <<>>
    THEN [result |-> None, normalized |-> None, truncated |-> None]
    ELSE LET normalized ==
                 NormalizeWhitespace(
                     RemoveSpecialChars(RemoveUrls(StripTags(Unescape(text)))))
             truncated == Truncate(normalized, max)
         IN  [result     |-> IF Len(truncated) < min THEN None ELSE truncated,
              normalized |-> normalized,
              truncated  |-> truncated]

(***************************************************************************)
(* processors/pipeline.py                                                  *)
(***************************************************************************)
\* TextCleaner.clean_batch: the cleaned texts, those that came back None left out
RECURSIVE clean_batch(_, _, _)
clean_batch(min, max, texts) ==
    IF texts = <<>> THEN <<>>
    ELSE LET c == clean(min, max, Head(texts)).result
         IN  IF c # None THEN <<c>> \o clean_batch(min, max, Tail(texts))
             ELSE clean_batch(min, max, Tail(texts))

\* the item is skipped whenever its cleaned text is None
CleanStepTextOnly(items, i, st) ==
    LET item         == items[i]
        cleaned_text == clean(10, 5000, item.text).result
    IN  IF cleaned_text = None THEN st
        ELSE [cleaned_items |-> Append(st.cleaned_items,
                                       [item EXCEPT !.text = cleaned_text]),
              idx           |-> Append(st.idx, i)]

\* One iteration of the for loop of process on items[i], with the cleaner
\* TextCleaner(); st carries the local list cleaned_items and idx, the input
\* positions of the items appended to it.
CleanStep(items, i, st) ==
    LET item          == items[i]
        cleaned_text  == clean(10, 5000, item.text).result
        cleaned_title == IF item.title # None /\ item.title # <<>>
                         THEN clean(10, 5000, item.title).result
                         ELSE item.title
    IN  IF cleaned_text = None /\ (cleaned_title = None \/ cleaned_title = <<>>)
        THEN st
        ELSE [cleaned_items |->
                  Append(st.cleaned_items,
                         [item EXCEPT
                             !.text  = IF cleaned_text = None \/ cleaned_text = <<>>
                                       THEN <<>> ELSE cleaned_text,
                             !.title = IF cleaned_title # None
                                       THEN cleaned_title ELSE item.title]),
              idx           |-> Append(st.idx, i)]

RECURSIVE CleanLoop(_, _, _)
CleanLoop(items, i, st) ==
    IF i > Len(items) THEN st
    ELSE CleanLoop(items, i + 1, CleanStep(items, i, st))

\* ProcessingPipeline.process on a pipeline whose Deduplicator() holds seen:
\* passed are the input positions of cleaned_items, kept the positions in
\* cleaned_items of the items returned.
process(seen, items) ==
    CHOOSE r \in
        UNION { { [cleaned_items |-> c.cleaned_items,
                   passed        |-> c.idx,
                   unique_items  |-> d.unique,
                   kept          |-> d.idx,
                   seen          |-> d.seen] :
                      d \in {deduplicate(seen, <<17, 20>>, c.cleaned_items)} } :
                  c \in {CleanLoop(items, 1, [cleaned_items |-> <<>>, idx |-> <<>>])} } :
        TRUE

\* EmotionAnalyzer.analyze_batch in lightweight mode
analyze_batch(texts) == [i \in 1..Len(texts) |-> analyze_lexicon(texts[i])]

(***************************************************************************)
(* State                                                                   *)
(***************************************************************************)
VARIABLES
    similarity_threshold,  \* Deduplicator.similarity_threshold, <<num, den>>
    seen_hashes,           \* Deduplicator._seen_hashes
    itemsHandled,          \* items handed to deduplicate since construction
    sessionItems,          \* items handed to deduplicate since construction or reset
    wasReset,              \* reset() has been called on the instance
    lastItems,             \* argument of the latest deduplicate call
    lastUnique,            \* list returned by the latest deduplicate call
    lastIdx,               \* input positions of the returned items
    keptBefore,            \* items returned by earlier calls of the session
    seenAtReset,           \* _seen_hashes as the latest reset() found it
    fresh_seen,            \* _seen_hashes of a Deduplicator constructed at the reset
    freshUnique,           \* what that Deduplicator returned for lastItems
    config,                \* the LooshIndexCalculator's fields, set by __init__
    aggregated,            \* the argument of calculate
    calc_pc,               \* "ready" before calculate has run, "done" after
    score,                 \* the LooshScore calculate returned
    calcLocals,            \* emotion_signal, sentiment_amplifier, raw_index at return
    mode,                  \* EmotionAnalyzer.mode
    requested_mode,        \* the argument mode of EmotionAnalyzer.__init__
    init_outcome,          \* how loading the classification pipeline ended
    emo_text,              \* the argument of analyze
    pipeline_results,      \* what the classification pipeline returns for it
    emo_pc,                \* "ready" before analyze has run, "done" after, "raised"
                           \* when __init__ raised
    emotion_result,        \* the EmotionResult analyze returned
    source_weights,        \* Aggregator.source_weights
    agg_items,             \* the processed items, each with its text
    agg_sentiments,        \* their SentimentResults, position by position
    agg_emotions,          \* their EmotionResults, position by position
    agg_pc,                \* "collect" before aggregate has run, "done" after
    agg_result,            \* the AggregatedResult aggregate returned
    min_length,            \* TextCleaner.min_length
    max_length,            \* TextCleaner.max_length
    clean_text,            \* the argument of clean
    clean_pc,              \* "ready" before clean has run, "done" after
    cleaned,               \* what clean returned
    cleanLocals,           \* the local variable text of clean at its length tests
    pipe_input,            \* the argument of process, as the collectors delivered it
    pipe_seen,             \* _seen_hashes of the pipeline's Deduplicator
    pipe_seen0,            \* _seen_hashes as the process call found it
    pipe_pc,               \* "ready", "processed", "analyzed", "aggregated"
    pipe_cleaned,          \* the local list cleaned_items of process
    pipe_passed,           \* input positions of the items in cleaned_items
    pipe_unique,           \* the list process returned
    pipe_kept,             \* positions in cleaned_items of the items returned
    batch_pc,              \* "ready" before clean_batch has run, "done" after
    batch_out,             \* the list clean_batch returned
    pipe_sentiments,       \* what SentimentAnalyzer.analyze_batch returned
    pipe_emotions,         \* what EmotionAnalyzer.analyze_batch returned
    pipe_result,           \* the AggregatedResult of the processed items
    race_items,            \* per thread: the argument of its deduplicate call
    race_i,                \* per thread: the position of the loop in items
    race_pc,               \* per thread: "check" before line 55, "record" before
                           \* line 78, "returned"
    race_fps,              \* per thread: the local list fingerprints
    race_unique,           \* per thread: the local list unique, returned at the end
    raced                  \* a thread passed the digest test of line 63 while
                           \* another stood before line 78 with the same digest

dedupVars == <<similarity_threshold, seen_hashes, itemsHandled, sessionItems, wasReset, lastItems,
               lastUnique, lastIdx, keptBefore, seenAtReset, fresh_seen, freshUnique>>

calcVars == <<config, aggregated, calc_pc, score, calcLocals>>

emoVars == <<mode, requested_mode, init_outcome, emo_text, pipeline_results, emo_pc,
             emotion_result>>

aggVars == <<source_weights, agg_items, agg_sentiments, agg_emotions, agg_pc,
             agg_result>>

cleanVars == <<min_length, max_length, clean_text, clean_pc, cleaned, cleanLocals>>

pipeVars == <<pipe_input, pipe_seen, pipe_seen0, pipe_pc, pipe_cleaned, pipe_passed,
              pipe_unique, pipe_kept, batch_pc, batch_out, pipe_sentiments,
              pipe_emotions, pipe_result>>

raceVars == <<race_items, race_i, race_pc, race_fps, race_unique, raced>>

vars == <<dedupVars, calcVars, emoVars, aggVars, cleanVars, pipeVars, raceVars>>

(***************************************************************************)
(* Inputs                                                                  *)
(***************************************************************************)
Item(title, text) == [title |-> title, text |-> text]

\* Items for the threshold 1/2: similarities 0, 1/3, 1/2 and 1 occur among them.
PoolHalf ==
    { Item(None, <<"a","a","a">>),
      Item(None, <<"a","a","a","b">>),
      Item(None, <<"a","a","b","b">>),
      Item(None, <<"A","A","A","!">>),
      Item(<<"a">>, <<"a","!">>),
      Item(None, <<"a","!","a">>),
      Item(<<>>, <<" ">>),
      Item(None, <<"!">>) }

\* Items for the default threshold 0.85: the two long texts have similarity 6/7.
PoolDefault ==
    { Item(None, <<"a","a","a">>),
      Item(None, <<"A","A","A","!">>),
      Item(None, <<"a","a","a","b">>),
      Item(<<>>, <<" ">>),
      Item(None, <<"a","a","a","b","a","b","b","b">>),
      Item(None, <<"a","a","a","b","a","b","b","b","a">>) }

Thresholds == { <<1, 2>>, <<17, 20>> }

ItemPool(threshold) == IF threshold = <<1, 2>> THEN PoolHalf ELSE PoolDefault

Batches(threshold, n) == UNION { [1..k -> ItemPool(threshold)] : k \in 0..n }

Range(s) == { s[i] : i \in 1..Len(s) }

\* --- LooshIndexCalculator configurations and AggregatedResults ---

Vec(joy, anger, fear, sadness, surprise, disgust, trust, anticipation) ==
    [e \in Categories |->
        CASE e = "joy" -> joy [] e = "anger" -> anger [] e = "fear" -> fear
          [] e = "sadness" -> sadness [] e = "surprise" -> surprise
          [] e = "disgust" -> disgust [] e = "trust" -> trust
          [] e = "anticipation" -> anticipation]

\* __init__'s default emotion_polarity
DefaultPolarity ==
    Vec(R(-1, 1), R(3, 2), R(9, 5), R(6, 5), R(3, 10), R(1, 1), R(-4, 5), R(1, 5))

\* a polarity table that names two categories only
PartialPolarity == [e \in {"anger", "joy"} |-> IF e = "anger" THEN R(2, 1) ELSE R(-1, 2)]

UniformEmotions == Vec(R(1,8), R(1,8), R(1,8), R(1,8), R(1,8), R(1,8), R(1,8), R(1,8))

AngryEmotions == Vec(R(0,1), R(1,2), R(3,10), R(1,8), R(1,8), R(1,8), R(0,1), R(1,8))

JoyfulEmotions == Vec(R(3,5), R(0,1), R(0,1), R(1,8), R(1,8), R(1,8), R(3,10), R(1,8))

FearfulEmotions == Vec(R(0,1), R(1,10), R(9,10), R(0,1), R(0,1), R(0,1), R(0,1), R(0,1))

\* AggregatedResult()'s emotions and sentiment: {}
EmptyDict == [k \in {} |-> <<0, 1>>]

Sentiment(positive, neutral, negative) ==
    [k \in {"positive", "neutral", "negative"} |->
        CASE k = "positive" -> positive [] k = "neutral" -> neutral
          [] k = "negative" -> negative]

SentimentPool ==
    { EmptyDict,
      Sentiment(R(0, 1), R(0, 1), R(1, 1)),
      Sentiment(R(4, 5), R(1, 10), R(1, 10)) }

CorpusEmotionPool == { EmptyDict, UniformEmotions, FearfulEmotions, JoyfulEmotions }

SourceEmotionPool == { AngryEmotions, JoyfulEmotions }

SourceNames == { "rss_news", "reddit", "rss_tech" }

\* source_breakdown as the list of its (key, value) pairs in dict order
Breakdowns ==
    UNION { { b \in [1..n -> [source : SourceNames, emotions : SourceEmotionPool]] :
                \A i, j \in 1..n : i # j => b[i].source # b[j].source } :
            n \in 0..MaxSources }

Aggregates ==
    [items_analyzed   : 0..MaxAnalyzed,
     sentiment        : SentimentPool,
     emotions         : CorpusEmotionPool,
     source_breakdown : Breakdowns]

SourceWeightPool ==
    { EmptyDict,
      [k \in {"rss_news"} |-> R(1, 1)],
      [k \in {"rss_news", "reddit"} |-> R(1, 2)],
      [k \in {"rss_news", "reddit"} |-> IF k = "rss_news" THEN R(0, 1) ELSE R(3, 10)],
      [k \in {"reddit", "rss_tech"} |-> IF k = "reddit" THEN R(-1, 1) ELSE R(2, 1)] }

\* baseline, scale_min, scale_max
ScalePool ==
    { [baseline |-> R(50, 1),  scale_min |-> R(0, 1),   scale_max |-> R(100, 1)],
      [baseline |-> R(50, 1),  scale_min |-> R(0, 1),   scale_max |-> R(1999, 20)],
      [baseline |-> R(150, 1), scale_min |-> R(0, 1),   scale_max |-> R(100, 1)],
      [baseline |-> R(20, 1),  scale_min |-> R(40, 1),  scale_max |-> R(60, 1)],
      [baseline |-> R(30, 1),  scale_min |-> R(35, 1),  scale_max |-> R(85, 1)] }

Configs ==
    { [emotion_polarity |-> p, baseline |-> sc.baseline, scale_min |-> sc.scale_min,
       scale_max |-> sc.scale_max, source_weights |-> w] :
          p \in {DefaultPolarity, PartialPolarity}, sc \in ScalePool, w \in SourceWeightPool }

ScoreOf(r) == [index |-> r.index, label |-> r.label, components |-> r.components]

LocalsOf(r) == [emotion_signal |-> r.signal, sentiment_amplifier |-> r.amplifier,
                raw_index |-> r.raw]

\* the pipeline's output for a text the model never classifies
NoResults == [l \in {} |-> <<0, 1>>]

\* the other components while one of them is exercised: each as its
\* constructor leaves it under the default configuration, before any call
EmoIdle ==
    /\ mode = "lightweight"
    /\ requested_mode = "lightweight"
    /\ init_outcome = "ok"
    /\ emo_text = <<>>
    /\ pipeline_results = NoResults
    /\ emo_pc = "ready"
    /\ emotion_result = [scores |-> [k \in {} |-> <<0, 1>>], dominant_emotion |-> "neutral"]

AggIdle ==
    /\ source_weights = EmptyDict
    /\ agg_items = <<>>
    /\ agg_sentiments = <<>>
    /\ agg_emotions = <<>>
    /\ agg_pc = "collect"
    /\ agg_result = EmptyResult

CleanIdle ==
    /\ min_length = 10
    /\ max_length = 5000
    /\ clean_text = None
    /\ clean_pc = "ready"
    /\ cleaned = None
    /\ cleanLocals = None

CalcIdle ==
    /\ config = [emotion_polarity |-> DefaultPolarity, baseline |-> R(50, 1),
                 scale_min |-> R(0, 1), scale_max |-> R(100, 1),
                 source_weights |-> EmptyDict]
    /\ aggregated = [items_analyzed |-> 0, sentiment |-> EmptyDict,
                     emotions |-> EmptyDict, source_breakdown |-> <<>>]
    /\ calc_pc = "ready"
    /\ score = ScoreOf(NoData(config))
    /\ calcLocals = LocalsOf(NoData(config))

(***************************************************************************)
(* EmotionAnalyzer and Aggregator: inputs                                  *)
(***************************************************************************)
SentimentResult(positive, neutral, negative, compound) ==
    [positive |-> positive, neutral |-> neutral, negative |-> negative,
     compound |-> compound]

\* texts as the pipeline hands them to the analyzers, each with the
\* SentimentResult the sentiment analyzer gives it: "joy war sad"; "Peace!"; "the cat";
\* "War, war; fear"; "Sad joy"
AnalyzedTexts ==
    {
      [text |-> <<"j", "o", "y", " ", "w", "a", "r", " ", "s", "a", "d">>,
       sentiment |-> SentimentResult(R(6, 10), R(3, 10), R(1, 10), R(5, 10))],
      [text |-> <<"P", "e", "a", "c", "e", "!">>,
       sentiment |-> SentimentResult(R(4, 10), R(5, 10), R(1, 10), R(3, 10))],
      [text |-> <<"t", "h", "e", " ", "c", "a", "t">>,
       sentiment |-> SentimentResult(R(0, 10), R(10, 10), R(0, 10), R(0, 10))],
      [text |-> <<"W", "a", "r", ",", " ", "w", "a", "r", ";", " ", "f", "e", "a", "r">>,
       sentiment |-> SentimentResult(R(1, 10), R(2, 10), R(7, 10), R(-8, 10))],
      [text |-> <<"S", "a", "d", " ", "j", "o", "y">>,
       sentiment |-> SentimentResult(R(3, 10), R(4, 10), R(3, 10), R(0, 10))] }

\* and the texts "" and "sad2 joy_ war"
EmotionTexts ==
    { a.text : a \in AnalyzedTexts }
        \cup { <<>>,
               <<"s", "a", "d", "2", " ", "j", "o", "y", "_", " ", "w", "a", "r">> }

\* the labels of the classification model
ModelLabels == MappedLabels \cup {"neutral"}

ModelScores(joy, anger, fear, sadness, surprise, disgust, neutral) ==
    [l \in ModelLabels |->
        CASE l = "joy" -> joy [] l = "anger" -> anger [] l = "fear" -> fear
          [] l = "sadness" -> sadness [] l = "surprise" -> surprise
          [] l = "disgust" -> disgust [] l = "neutral" -> neutral]

\* score vectors of the classification model: probabilities that sum to 1
PipelineResultsPool ==
    { ModelScores(R(7, 10), R(0, 1), R(0, 1), R(0, 1), R(0, 1), R(0, 1), R(3, 10)),
      ModelScores(R(0, 1), R(0, 1), R(0, 1), R(0, 1), R(0, 1), R(0, 1), R(1, 1)),
      ModelScores(R(1, 3), R(1, 3), R(1, 3), R(0, 1), R(0, 1), R(0, 1), R(0, 1)),
      ModelScores(R(1, 7), R(1, 7), R(1, 7), R(1, 7), R(1, 7), R(1, 7), R(1, 7)),
      ModelScores(R(0, 1), R(0, 1), R(0, 1), R(1, 2), R(0, 1), R(1, 2), R(0, 1)),
      ModelScores(R(0, 1), R(0, 1), R(1, 25000), R(0, 1), R(0, 1), R(0, 1),
                  R(24999, 25000)) }

AggSourceCategories == {"rss_news", "reddit"}

AggWeightPool == { EmptyDict, [k \in {"rss_news"} |-> R(3, 2)] }

(***************************************************************************)
(* TextCleaner: inputs                                                     *)
(***************************************************************************)
\* raw texts as collectors deliver them
CleanTexts ==
    {
      \* <p>Hi <b>yo</b></p>
      <<"<", "p", ">", "H", "i", " ", "<", "b", ">", "y", "o", "<", "/", "b", ">", "<", "/", "p", ">">>,
      \* a http://x.y b
      <<"a", " ", "h", "t", "t", "p", ":", "/", "/", "x", ".", "y", " ", "b">>,
      \* &lt;b&gt;ab&lt;/b&gt;
      <<"&", "l", "t", ";", "b", "&", "g", "t", ";", "a", "b", "&", "l", "t", ";", "/", "b", "&", "g", "t", ";">>,
      \* http:&#47;&#47;a.b c
      <<"h", "t", "t", "p", ":", "&", "#", "4", "7", ";", "&", "#", "4", "7", ";", "a", ".", "b", " ", "c">>,
      \* a < b > c
      <<"a", " ", "<", " ", "b", " ", ">", " ", "c">>,
      \* 1 <> 2 > 0
      <<"1", " ", "<", ">", " ", "2", " ", ">", " ", "0">>,
      \* x<y
      <<"x", "<", "y">>,
      \* www.a.bc d
      <<"w", "w", "w", ".", "a", ".", "b", "c", " ", "d">>,
      \*   Hello \t\n w  
      <<" ", " ", "H", "e", "l", "l", "o", " ", "\t", "\n", " ", "w", " ", " ">>,
      \* hello world
      <<"h", "e", "l", "l", "o", " ", "w", "o", "r", "l", "d">>,
      \* a@b #c
      <<"a", "@", "b", " ", "#", "c">>,
      \* https://
      <<"h", "t", "t", "p", "s", ":", "/", "/">>,
      \* wwwww.x
      <<"w", "w", "w", "w", "w", ".", "x">>,
      \* WWW.A.B
      <<"W", "W", "W", ".", "A", ".", "B">>,
      \* <<b>>
      <<"<", "<", "b", ">", ">">>,
      \* &amp;lt;b
      <<"&", "a", "m", "p", ";", "l", "t", ";", "b">>,
      \* it's "ok" - no?
      <<"i", "t", "'", "s", " ", "\"", "o", "k", "\"", " ", "-", " ", "n", "o", "?">>,
      \* &ltb&gt;ab
      <<"&", "l", "t", "b", "&", "g", "t", ";", "a", "b">>,
      \* <b>
      <<"<", "b", ">">>,
      \* ab https://c.d
      <<"a", "b", " ", "h", "t", "t", "p", "s", ":", "/", "/", "c", ".", "d">> }

(***************************************************************************)
(* ProcessingPipeline: inputs                                              *)
(***************************************************************************)
RawItem(title, text, source_category) ==
    [title |-> title, text |-> text, source_category |-> source_category]

\* items as collectors deliver them
RawItems ==
    {
      \* title None, text '<b>joy and war</b>'
      RawItem(None,
              <<"<", "b", ">", "j", "o", "y", " ", "a", "n", "d", " ", "w", "a", "r", "<", "/", "b", ">">>,
              "rss_news"),
      \* title None, text 'Joy and war!'
      RawItem(None,
              <<"J", "o", "y", " ", "a", "n", "d", " ", "w", "a", "r", "!">>,
              "reddit"),
      \* title '<b>Hi</b>', text 'sad news'
      RawItem(<<"<", "b", ">", "H", "i", "<", "/", "b", ">">>,
              <<"s", "a", "d", " ", "n", "e", "w", "s">>,
              "rss_news"),
      \* title '<b>Hi</b>', text '<b>joy and war</b>'
      RawItem(<<"<", "b", ">", "H", "i", "<", "/", "b", ">">>,
              <<"<", "b", ">", "j", "o", "y", " ", "a", "n", "d", " ", "w", "a", "r", "<", "/", "b", ">">>,
              "reddit"),
      \* title '<i>Peace on earth</i>', text ''
      RawItem(<<"<", "i", ">", "P", "e", "a", "c", "e", " ", "o", "n", " ", "e", "a", "r", "t", "h", "<", "/", "i", ">">>,
              <<>>,
              "rss_news"),
      \* title '', text 'sad news'
      RawItem(<<>>,
              <<"s", "a", "d", " ", "n", "e", "w", "s">>,
              "reddit"),
      \* title None, text ''
      RawItem(None,
              <<>>,
              "rss_news"),
      \* title '<i>Peace on earth</i>', text 'fear of war, sad'
      RawItem(<<"<", "i", ">", "P", "e", "a", "c", "e", " ", "o", "n", " ", "e", "a", "r", "t", "h", "<", "/", "i", ">">>,
              <<"f", "e", "a", "r", " ", "o", "f", " ", "w", "a", "r", ",", " ", "s", "a", "d">>,
              "reddit") }

RawBatches(n) == UNION { [1..k -> RawItems] : k \in 0..n }

\* what the pipeline was handed by an earlier process call: nothing, or
\* one item with the text "joy and war."
EarlierBatches ==
    { <<>>,
      <<RawItem(None, <<"j", "o", "y", " ", "a", "n", "d", " ", "w", "a", "r", ".">>, "rss_news")>> }

\* the SentimentResults VADER gives
VaderResults ==
    { SentimentResult(R(6, 10), R(3, 10), R(1, 10), R(5, 10)),
      SentimentResult(R(1, 10), R(2, 10), R(7, 10), R(-8, 10)) }

\* ProcessingPipeline(cfg) before any call
PipeIdle ==
    /\ pipe_input = <<>>
    /\ pipe_seen = {}
    /\ pipe_seen0 = {}
    /\ pipe_pc = "ready"
    /\ pipe_cleaned = <<>>
    /\ pipe_passed = <<>>
    /\ pipe_unique = <<>>
    /\ pipe_kept = <<>>
    /\ batch_pc = "ready"
    /\ batch_out = <<>>
    /\ pipe_sentiments = <<>>
    /\ pipe_emotions = <<>>
    /\ pipe_result = EmptyResult

(***************************************************************************)
(* Two threads on one Deduplicator: inputs                                 *)
(***************************************************************************)
Threads == {"t1", "t2"}

\* the first two items have the same canonical text
RacePool ==
    { Item(None, <<"a", "a", "a">>),
      Item(None, <<"A", "A", "A", "!">>),
      Item(None, <<"a", "a", "a", "b">>) }

RaceBatches == UNION { [1..k -> RacePool] : k \in 0..MaxRaceItems }

\* the position of a call in its loop over items
LoopPc(items, i) == IF i > Len(items) THEN "returned" ELSE "check"

\* no thread is inside a deduplicate call
RaceIdle ==
    /\ race_items = [t \in Threads |-> <<>>]
    /\ race_i = [t \in Threads |-> 1]
    /\ race_pc = [t \in Threads |-> "returned"]
    /\ race_fps = [t \in Threads |-> <<>>]
    /\ race_unique = [t \in Threads |-> <<>>]
    /\ raced = FALSE

(***************************************************************************)
(* Deduplicator: construction, deduplicate, reset                          *)
(***************************************************************************)
DedupConstructed ==
    /\ seen_hashes = {}
    /\ itemsHandled = 0
    /\ sessionItems = 0
    /\ wasReset = FALSE
    /\ lastItems = <<>>
    /\ lastUnique = <<>>
    /\ lastIdx = <<>>
    /\ keptBefore = {}
    /\ seenAtReset = {}
    /\ fresh_seen = {}
    /\ freshUnique = <<>>

DedupIdle ==
    /\ similarity_threshold = <<17, 20>>
    /\ DedupConstructed

InitDedup ==
    /\ similarity_threshold \in Thresholds
    /\ DedupConstructed
    /\ CalcIdle
    /\ EmoIdle
    /\ AggIdle
    /\ CleanIdle
    /\ PipeIdle
    /\ RaceIdle

Deduplicate(items) ==
    /\ LET r == deduplicate(seen_hashes, similarity_threshold, items)
           f == deduplicate(fresh_seen, similarity_threshold, items)
       IN  /\ seen_hashes' = r.seen
           /\ lastUnique' = r.unique
           /\ lastIdx' = r.idx
           /\ fresh_seen' = f.seen
           /\ freshUnique' = f.unique
    /\ lastItems' = items
    /\ keptBefore' = keptBefore \cup Range(lastUnique)
    /\ itemsHandled' = itemsHandled + Len(items)
    /\ sessionItems' = sessionItems + Len(items)
    /\ UNCHANGED <<similarity_threshold, wasReset, seenAtReset, calcVars, emoVars,
                   aggVars, cleanVars,
                   pipeVars, raceVars>>

Reset ==
    /\ seen_hashes' = reset(seen_hashes)
    /\ fresh_seen' = {}
    /\ freshUnique' = <<>>
    /\ lastItems' = <<>>
    /\ lastUnique' = <<>>
    /\ lastIdx' = <<>>
    /\ keptBefore' = {}
    /\ sessionItems' = 0
    /\ wasReset' = TRUE
    /\ seenAtReset' = seen_hashes
    /\ UNCHANGED <<similarity_threshold, itemsHandled, calcVars, emoVars, aggVars,
                   cleanVars,
                   pipeVars, raceVars>>

NextDedup ==
    \/ \E items \in Batches(similarity_threshold, MaxItems - itemsHandled) :
           Deduplicate(items)
    \/ Reset

SpecDedup == InitDedup /\ [][NextDedup]_vars

(***************************************************************************)
(* LooshIndexCalculator: construction and calculate                        *)
(***************************************************************************)
InitCalc ==
    /\ config \in Configs
    /\ aggregated \in Aggregates
    /\ calc_pc = "ready"
    /\ score = ScoreOf(NoData(config))
    /\ calcLocals = LocalsOf(NoData(config))
    /\ DedupIdle
    /\ EmoIdle
    /\ AggIdle
    /\ CleanIdle
    /\ PipeIdle
    /\ RaceIdle

Calculate ==
    /\ calc_pc = "ready"
    /\ score' = ScoreOf(calculate(config, aggregated))
    /\ calcLocals' = LocalsOf(calculate(config, aggregated))
    /\ calc_pc' = "done"
    /\ UNCHANGED <<config, aggregated, dedupVars, emoVars, aggVars, cleanVars,
                   pipeVars, raceVars>>

NextCalc == Calculate

SpecCalc == InitCalc /\ [][NextCalc]_vars

(***************************************************************************)
(* EmotionAnalyzer: construction and analyze                               *)
(***************************************************************************)
\* how `from transformers import pipeline` and the pipeline(...) call can end:
\* both succeed, the import raises ImportError, or loading the model raises
\* OSError
InitOutcomes == {"ok", "ImportError", "OSError"}

\* EmotionAnalyzer._init_transformer: the mode it leaves and the exception
\* that leaves it, "none" when it returns
init_transformer(outcome) ==
    IF outcome = "ok" THEN [mode |-> "deep", raised |-> "none"]
    ELSE IF outcome = "ImportError" THEN [mode |-> "lightweight", raised |-> "none"]
    ELSE [mode |-> "deep", raised |-> outcome]

\* EmotionAnalyzer.__init__
EmotionAnalyzerInit(m, outcome) ==
    IF m = "deep" THEN init_transformer(outcome)
    ELSE [mode |-> m, raised |-> "none"]

InitEmotion ==
    /\ requested_mode \in {"lightweight", "deep"}
    /\ init_outcome \in IF requested_mode = "deep" THEN InitOutcomes ELSE {"ok"}
    /\ mode = EmotionAnalyzerInit(requested_mode, init_outcome).mode
    /\ emo_text \in EmotionTexts
    /\ pipeline_results \in PipelineResultsPool
    /\ emo_pc = IF EmotionAnalyzerInit(requested_mode, init_outcome).raised = "none"
                THEN "ready" ELSE "raised"
    /\ emotion_result = [scores |-> [k \in {} |-> <<0, 1>>], dominant_emotion |-> "neutral"]
    /\ DedupIdle
    /\ CalcIdle
    /\ AggIdle
    /\ CleanIdle
    /\ PipeIdle
    /\ RaceIdle

\* EmotionAnalyzer.analyze
analyze(m, text, results) ==
    IF m = "lightweight" THEN analyze_lexicon(text) ELSE analyze_transformer(results)

Analyze ==
    /\ emo_pc = "ready"
    /\ emotion_result' = analyze(mode, emo_text, pipeline_results)
    /\ emo_pc' = "done"
    /\ UNCHANGED <<mode, requested_mode, init_outcome, emo_text, pipeline_results,
                   dedupVars, calcVars, aggVars,
                   cleanVars,
                   pipeVars, raceVars>>

NextEmotion == Analyze

SpecEmotion == InitEmotion /\ [][NextEmotion]_vars

(***************************************************************************)
(* Aggregator: construction, the analysis of the items, aggregate          *)
(***************************************************************************)
InitAgg ==
    /\ source_weights \in AggWeightPool
    /\ agg_items = <<>>
    /\ agg_sentiments = <<>>
    /\ agg_emotions = <<>>
    /\ agg_pc = "collect"
    /\ agg_result = EmptyResult
    /\ DedupIdle
    /\ CalcIdle
    /\ EmoIdle
    /\ CleanIdle
    /\ PipeIdle
    /\ RaceIdle

\* one more processed item with the results of its analysis (lightweight mode)
AnalyzeItem(a, cat) ==
    /\ agg_pc = "collect"
    /\ Len(agg_items) < MaxAggItems
    /\ agg_items' = Append(agg_items, [text |-> a.text, source_category |-> cat])
    /\ agg_sentiments' = Append(agg_sentiments, a.sentiment)
    /\ agg_emotions' = Append(agg_emotions, analyze_lexicon(a.text))
    /\ UNCHANGED <<source_weights, agg_pc, agg_result, dedupVars, calcVars, emoVars,
                   cleanVars,
                   pipeVars, raceVars>>

Aggregate ==
    /\ agg_pc = "collect"
    /\ agg_result' = aggregate(source_weights, agg_items, agg_sentiments, agg_emotions)
    /\ agg_pc' = "done"
    /\ UNCHANGED <<source_weights, agg_items, agg_sentiments, agg_emotions, dedupVars,
                   calcVars, emoVars, cleanVars,
                   pipeVars, raceVars>>

NextAgg ==
    \/ \E a \in AnalyzedTexts, cat \in AggSourceCategories : AnalyzeItem(a, cat)
    \/ Aggregate

SpecAgg == InitAgg /\ [][NextAgg]_vars

(***************************************************************************)
(* TextCleaner: construction and clean                                     *)
(***************************************************************************)
InitClean ==
    /\ min_length \in 0..MaxMinLength
    /\ max_length \in 0..MaxMaxLength
    /\ clean_text \in CleanTexts \cup {None, <<>>}
    /\ clean_pc = "ready"
    /\ cleaned = None
    /\ cleanLocals = None
    /\ DedupIdle
    /\ CalcIdle
    /\ EmoIdle
    /\ AggIdle
    /\ PipeIdle
    /\ RaceIdle

Clean ==
    /\ clean_pc = "ready"
    /\ LET r == clean(min_length, max_length, clean_text)
       IN  /\ cleaned' = r.result
           /\ cleanLocals' = [normalized |-> r.normalized, truncated |-> r.truncated]
    /\ clean_pc' = "done"
    /\ UNCHANGED <<min_length, max_length, clean_text, dedupVars, calcVars, emoVars,
                   aggVars,
                   pipeVars, raceVars>>

NextClean == Clean

SpecClean == InitClean /\ [][NextClean]_vars

(***************************************************************************)
(* ProcessingPipeline: construction, process, and the stages after it      *)
(***************************************************************************)
InitPipe ==
    /\ pipe_input \in RawBatches(MaxPipeItems)
    /\ pipe_seen \in { process({}, b).seen : b \in EarlierBatches }
    /\ pipe_seen0 = pipe_seen
    /\ pipe_pc = "ready"
    /\ pipe_cleaned = <<>>
    /\ pipe_passed = <<>>
    /\ pipe_unique = <<>>
    /\ pipe_kept = <<>>
    /\ batch_pc = "ready"
    /\ batch_out = <<>>
    /\ pipe_sentiments = <<>>
    /\ pipe_emotions = <<>>
    /\ pipe_result = EmptyResult
    /\ DedupIdle
    /\ CalcIdle
    /\ EmoIdle
    /\ AggIdle
    /\ CleanIdle
    /\ RaceIdle

Process ==
    /\ pipe_pc = "ready"
    /\ \E r \in {process(pipe_seen, pipe_input)} :
           /\ pipe_cleaned' = r.cleaned_items
           /\ pipe_passed' = r.passed
           /\ pipe_unique' = r.unique_items
           /\ pipe_kept' = r.kept
           /\ pipe_seen' = r.seen
    /\ pipe_pc' = "processed"
    /\ UNCHANGED <<pipe_input, pipe_seen0, batch_pc, batch_out, pipe_sentiments,
                   pipe_emotions, pipe_result, dedupVars, calcVars, emoVars, aggVars,
                   cleanVars, raceVars>>

\* TextCleaner().clean_batch on the texts of the items
CleanBatch ==
    /\ batch_pc = "ready"
    /\ batch_out' = clean_batch(10, 5000,
                                [i \in 1..Len(pipe_input) |-> pipe_input[i].text])
    /\ batch_pc' = "done"
    /\ UNCHANGED <<pipe_input, pipe_seen, pipe_seen0, pipe_pc, pipe_cleaned,
                   pipe_passed, pipe_unique, pipe_kept, pipe_sentiments,
                   pipe_emotions, pipe_result, dedupVars, calcVars, emoVars, aggVars,
                   cleanVars, raceVars>>

\* both analyze_batch calls on the combined texts of the processed items
AnalyzeBatch(sents) ==
    /\ pipe_pc = "processed"
    /\ pipe_sentiments' = sents
    /\ pipe_emotions' =
           analyze_batch([i \in 1..Len(pipe_unique) |-> combined_text(pipe_unique[i])])
    /\ pipe_pc' = "analyzed"
    /\ UNCHANGED <<pipe_input, pipe_seen, pipe_seen0, pipe_cleaned, pipe_passed,
                   pipe_unique, pipe_kept, batch_pc, batch_out, pipe_result,
                   dedupVars, calcVars, emoVars, aggVars, cleanVars, raceVars>>

\* Aggregator(cfg).aggregate with no source_weights configured
AggregateBatch ==
    /\ pipe_pc = "analyzed"
    /\ pipe_result' = aggregate(EmptyDict, pipe_unique, pipe_sentiments, pipe_emotions)
    /\ pipe_pc' = "aggregated"
    /\ UNCHANGED <<pipe_input, pipe_seen, pipe_seen0, pipe_cleaned, pipe_passed,
                   pipe_unique, pipe_kept, batch_pc, batch_out, pipe_sentiments,
                   pipe_emotions, dedupVars, calcVars, emoVars, aggVars, cleanVars, raceVars>>

NextPipe ==
    \/ Process
    \/ CleanBatch
    \/ \E sents \in [1..Len(pipe_unique) -> VaderResults] : AnalyzeBatch(sents)
    \/ AggregateBatch

SpecPipe == InitPipe /\ [][NextPipe]_vars

(***************************************************************************)
(* Two threads calling deduplicate on one Deduplicator().  A thread can be *)
(* preempted between any two statements; the set operations `in` and add   *)
(* are each atomic.                                                        *)
(***************************************************************************)
InitRace ==
    /\ DedupIdle
    /\ race_items \in [Threads -> RaceBatches]
    /\ race_i = [t \in Threads |-> 1]
    /\ race_pc = [t \in Threads |-> LoopPc(race_items[t], 1)]
    /\ race_fps = [t \in Threads |-> <<>>]
    /\ race_unique = [t \in Threads |-> <<>>]
    /\ raced = FALSE
    /\ CalcIdle
    /\ EmoIdle
    /\ AggIdle
    /\ CleanIdle
    /\ PipeIdle

\* the digest thread u is about to record at line 78
Pending(u) == content_hash(combined_text(race_items[u][race_i[u]]))

\* lines 55-76 for the item thread t has reached
RaceCheck(t) ==
    /\ race_pc[t] = "check"
    /\ LET item == race_items[t][race_i[t]]
       IN  IF passes_checks(seen_hashes, race_fps[t], similarity_threshold, item)
           THEN /\ race_pc' = [race_pc EXCEPT ![t] = "record"]
                /\ raced' = ( raced \/
                              \E u \in Threads \ {t} :
                                  /\ race_pc[u] = "record"
                                  /\ Pending(u) = content_hash(combined_text(item)) )
                /\ UNCHANGED race_i
           ELSE /\ race_i' = [race_i EXCEPT ![t] = @ + 1]
                /\ race_pc' = [race_pc EXCEPT
                                  ![t] = LoopPc(race_items[t], race_i[t] + 1)]
                /\ UNCHANGED raced
    /\ UNCHANGED <<race_items, race_fps, race_unique, dedupVars, calcVars, emoVars,
                   aggVars, cleanVars, pipeVars>>

\* lines 78-80 for that item
RaceRecord(t) ==
    /\ race_pc[t] = "record"
    /\ LET item == race_items[t][race_i[t]]
       IN  /\ seen_hashes' = seen_hashes \cup {content_hash(combined_text(item))}
           /\ race_fps' = [race_fps EXCEPT
                              ![t] = Append(@, ngram_fingerprint(combined_text(item)))]
           /\ race_unique' = [race_unique EXCEPT ![t] = Append(@, item)]
    /\ race_i' = [race_i EXCEPT ![t] = @ + 1]
    /\ race_pc' = [race_pc EXCEPT ![t] = LoopPc(race_items[t], race_i[t] + 1)]
    /\ UNCHANGED <<race_items, raced, similarity_threshold, itemsHandled, sessionItems,
                   wasReset, lastItems, lastUnique, lastIdx, keptBefore, seenAtReset,
                   fresh_seen, freshUnique, calcVars, emoVars, aggVars, cleanVars,
                   pipeVars>>

NextRace ==
    \/ \E t \in Threads : RaceCheck(t)
    \/ \E t \in Threads : RaceRecord(t)

SpecRace == InitRace /\ [][NextRace]_vars

(***************************************************************************)
(* Properties of the Deduplicator                                          *)
(***************************************************************************)
Canon(item) == normalize_for_hash(combined_text(item))

Fp(item) == ngram_fingerprint(combined_text(item))

Similar(x, y) == RatGeq(jaccard_similarity(Fp(x), Fp(y)), similarity_threshold)

IsBlank(item) == Strip(combined_text(item)) = <<>>

\* the items of the latest call that were returned from a position before i
KeptEarlier(i) == { lastItems[j] : j \in { k \in Range(lastIdx) : k < i } }

RECURSIVE IsSubseq(_, _)
IsSubseq(u, s) ==
    IF u = <<>> THEN TRUE
    ELSE IF s = <<>> THEN FALSE
    ELSE IF Head(u) = Head(s) THEN IsSubseq(Tail(u), Tail(s))
    ELSE IsSubseq(u, Tail(s))

\* C1: no item returned by a deduplicate call reaches the similarity
\* threshold with an item returned by an earlier call of the same session.
C1_NearDupAcrossCalls ==
    \A u \in Range(lastUnique) : \A k \in keptBefore : ~Similar(u, k)

\* C2: no returned item has the canonical combined text of an item returned
\* earlier in the session, in an earlier call or earlier in the same call.
C2_NoExactDuplicateReturned ==
    /\ \A u \in Range(lastUnique) : \A k \in keptBefore : Canon(u) # Canon(k)
    /\ \A i, j \in 1..Len(lastUnique) :
           i < j => Canon(lastUnique[i]) # Canon(lastUnique[j])

\* An item spelled differently from an item kept by an earlier call, with the
\* same canonical text, was handed in and not returned.
C2_Witness ==
    \E i \in 1..Len(lastItems) : \E k \in keptBefore :
        /\ lastItems[i] # k
        /\ Canon(lastItems[i]) = Canon(k)
        /\ i \notin Range(lastIdx)

\* C3: the list returned by deduplicate is a subsequence of its argument.
C3_OutputIsSubsequence == IsSubseq(lastUnique, lastItems)

\* A call that returned the first and the third of three items.
C3_Witness ==
    /\ Len(lastItems) = 3
    /\ lastIdx = <<1, 3>>
    /\ lastUnique[1] # lastUnique[2]

\* C4: no two items returned by one call reach the similarity threshold; a
\* similarity equal to the threshold counts.
C4_NoNearDuplicatePairInOutput ==
    \A i, j \in 1..Len(lastUnique) :
        i < j => ~Similar(lastUnique[i], lastUnique[j])

\* Two items of one call with different canonical text and a similarity
\* exactly equal to the threshold: the first returned, the second not.
C4_Witness ==
    \E i, j \in 1..Len(lastItems) :
        /\ i < j
        /\ Canon(lastItems[i]) # Canon(lastItems[j])
        /\ LET sim == jaccard_similarity(Fp(lastItems[i]), Fp(lastItems[j]))
           IN  sim[1] * similarity_threshold[2] = similarity_threshold[1] * sim[2]
        /\ i \in Range(lastIdx)
        /\ j \notin Range(lastIdx)

\* C5: an item is left out only if it is blank, or has the digest of an item
\* kept before it in the session, or reaches the threshold with an item kept
\* before it; two non-blank items with different canonical text and a
\* similarity below the threshold, given to a fresh instance, are both returned.
C5_OmittedOnlyForCause ==
    /\ lastUnique = [j \in 1..Len(lastIdx) |-> lastItems[lastIdx[j]]]
    /\ \A i \in 1..Len(lastItems) :
           i \notin Range(lastIdx) =>
               \/ IsBlank(lastItems[i])
               \/ \E k \in keptBefore \cup KeptEarlier(i) :
                      Canon(k) = Canon(lastItems[i])
               \/ \E k \in keptBefore \cup KeptEarlier(i) :
                      Similar(lastItems[i], k)
    /\ ( /\ sessionItems = 2
         /\ Len(lastItems) = 2
         /\ ~IsBlank(lastItems[1]) /\ ~IsBlank(lastItems[2])
         /\ Canon(lastItems[1]) # Canon(lastItems[2])
         /\ ~Similar(lastItems[1], lastItems[2]) )
       => lastUnique = lastItems

\* A fresh instance returned both of two items whose similarity is positive
\* and below the threshold.
C5_Witness ==
    /\ sessionItems = 2
    /\ Len(lastItems) = 2
    /\ lastUnique = lastItems
    /\ jaccard_similarity(Fp(lastItems[1]), Fp(lastItems[2]))[1] > 0
    /\ ~Similar(lastItems[1], lastItems[2])

\* C6: after reset() the instance holds the state of, and answers every
\* deduplicate call as, a Deduplicator newly constructed at the reset.
C6_ResetEqualsFresh ==
    wasReset => /\ seen_hashes = fresh_seen
                /\ lastUnique = freshUnique

\* After a reset that discarded a digest, a second call of the new session
\* returned an item with that digest.
C6_Witness ==
    /\ wasReset
    /\ keptBefore # {}
    /\ \E u \in Range(lastUnique) : content_hash(combined_text(u)) \in seenAtReset

(***************************************************************************)
(* Properties of the LooshIndexCalculator                                  *)
(***************************************************************************)
RECURSIVE RSum(_, _)
\* the sum of term[x] over the finite set S
RSum(S, term) ==
    IF S = {} THEN <<0, 1>>
    ELSE LET x == CHOOSE y \in S : TRUE
         IN  RAdd(term[x], RSum(S \ {x}, term))

\* the polarity-weighted sum of an emotions mapping over the 8 categories
PolaritySum(emotions) ==
    RSum(Categories,
         [e \in Categories |->
             RMul(GetOr0(emotions, e), GetOr0(config.emotion_polarity, e))])

SourcesPresent == { aggregated.source_breakdown[i].source :
                        i \in 1..Len(aggregated.source_breakdown) }

EmotionsOf(s) ==
    (CHOOSE entry \in Range(aggregated.source_breakdown) : entry.source = s).emotions

\* the sources of the breakdown with a strictly positive configured weight
PositiveSources ==
    { s \in SourcesPresent : RLt(<<0, 1>>, GetOr0(config.source_weights, s)) }

WeightedTotal ==
    RSum(PositiveSources,
         [s \in PositiveSources |->
             RMul(PolaritySum(EmotionsOf(s)), config.source_weights[s])])

WeightTotal ==
    RSum(PositiveSources, [s \in PositiveSources |-> config.source_weights[s]])

ExpectedAmplifier ==
    RAdd(<<1, 1>>,
         RMul(RSub(GetOr0(aggregated.sentiment, "negative"),
                   GetOr0(aggregated.sentiment, "positive")), <<1, 2>>))

ExpectedRaw(signal) ==
    RAdd(config.baseline, RMul(signal, RMul(ExpectedAmplifier, <<25, 1>>)))

Scoring == calc_pc = "done" /\ aggregated.items_analyzed > 0

InScale(x) == RLeq(config.scale_min, x) /\ RLeq(x, config.scale_max)

C8_SourceWeightedSignal ==
    Scoring =>
        /\ PositiveSources # {} =>
               RMul(calcLocals.emotion_signal, WeightTotal) = WeightedTotal
        /\ PositiveSources = {} =>
               calcLocals.emotion_signal = PolaritySum(aggregated.emotions)
        /\ score.index =
               RMax(config.scale_min,
                    RMin(config.scale_max,
                         RoundTo(ExpectedRaw(calcLocals.emotion_signal), 10)))

\* The breakdown holds a source with positive weight and a source with a
\* negative configured weight, and the signal used is not the corpus one.
C8_Witness ==
    /\ Scoring
    /\ PositiveSources # {}
    /\ \E s \in SourcesPresent :
           /\ s \in DOMAIN config.source_weights
           /\ RLt(config.source_weights[s], <<0, 1>>)
    /\ calcLocals.emotion_signal # PolaritySum(aggregated.emotions)

OverrideApplies == PositiveSources # {}

\* C9 as stated: without the override the index is the raw index
\* baseline + emotion_signal * amplifier * 25, clamped to the scale and then
\* rounded to one decimal place.
C9_ClampedThenRounded ==
    (Scoring /\ ~OverrideApplies) =>
        score.index =
            RoundTo(RMax(config.scale_min,
                         RMin(config.scale_max,
                              ExpectedRaw(PolaritySum(aggregated.emotions)))), 10)

\* C9 amended: without the override the emotion signal is the polarity
\* weighted sum of the corpus means, the amplifier is
\* 1.0 + (negative - positive) * 0.5, the raw index is
\* baseline + emotion_signal * amplifier * 25, and the index is the raw index
\* rounded to one decimal place and then clamped: max(scale_min,
\* min(scale_max, round(raw, 1))).
C9_RoundedThenClamped ==
    (Scoring /\ ~OverrideApplies) =>
        /\ calcLocals.emotion_signal = PolaritySum(aggregated.emotions)
        /\ calcLocals.sentiment_amplifier = ExpectedAmplifier
        /\ calcLocals.raw_index = ExpectedRaw(PolaritySum(aggregated.emotions))
        /\ score.index =
               RMax(config.scale_min,
                    RMin(config.scale_max,
                         RoundTo(ExpectedRaw(PolaritySum(aggregated.emotions)), 10)))

\* Without the override, a raw index strictly inside the scale that is not a
\* multiple of 0.1 was reported rounded.
C9_Witness ==
    /\ Scoring
    /\ ~OverrideApplies
    /\ RLt(config.scale_min, calcLocals.raw_index)
    /\ RLt(calcLocals.raw_index, config.scale_max)
    /\ score.index # calcLocals.raw_index
    /\ calcLocals.sentiment_amplifier # <<1, 1>>

\* C10: with items_analyzed = 0 calculate returns the baseline, "No Data"
\* and empty components; with items_analyzed > 0 the label is never "No Data".
C10_NoData ==
    calc_pc = "done" =>
        /\ aggregated.items_analyzed = 0 =>
               /\ score.index = config.baseline
               /\ score.label = "No Data"
               /\ DOMAIN score.components = {}
        /\ aggregated.items_analyzed > 0 => score.label # "No Data"

\* An AggregatedResult with items_analyzed = 0 but emotions, sentiment and a
\* breakdown, under a baseline outside the scale, got the baseline.
C10_Witness ==
    /\ calc_pc = "done"
    /\ aggregated.items_analyzed = 0
    /\ DOMAIN aggregated.emotions # {}
    /\ DOMAIN aggregated.sentiment # {}
    /\ Len(aggregated.source_breakdown) > 0
    /\ ~InScale(config.baseline)
    /\ score.index = config.baseline

\* lower thresholds of the bands above "Very Calm", and the band names in
\* rising order
BandThresholds == <<20, 35, 45, 55, 65, 75, 85>>

BandNames == <<"Very Calm", "Calm", "Slightly Calm", "Neutral", "Slightly Elevated",
               "Elevated", "High", "Very High">>

\* position of a label among the bands, 0 for a label that is no band
BandRank(l) ==
    IF \E i \in DOMAIN BandNames : BandNames[i] = l
    THEN CHOOSE i \in DOMAIN BandNames : BandNames[i] = l
    ELSE 0

\* number of thresholds at or below the index
ThresholdsReached(index) ==
    Cardinality({i \in DOMAIN BandThresholds : RLeq(<<BandThresholds[i], 1>>, index)})

\* C11: with items_analyzed > 0 the label is determined by the final index:
\* the band whose lower threshold is the greatest one at or below the index
\* (a threshold value itself belongs to the higher band), so a greater index
\* never gets a lower band.
C11_LabelBands ==
    Scoring =>
        /\ BandRank(score.label) = ThresholdsReached(score.index) + 1
        /\ \A i \in DOMAIN BandThresholds :
               RLeq(<<BandThresholds[i], 1>>, score.index) <=> BandRank(score.label) > i

\* An index clamped to exactly 85 was labelled "Very High".
C11_Witness ==
    /\ Scoring
    /\ score.index = <<85, 1>>
    /\ RLt(<<85, 1>>, calcLocals.raw_index)
    /\ score.label = "Very High"

(***************************************************************************)
(* Properties of the Aggregator                                            *)
(***************************************************************************)
Aggregated == agg_pc = "done" /\ agg_items # <<>>

ItemPositions == 1..Len(agg_items)

\* the exact mean of one SentimentResult field over all items
FieldMean(field) ==
    RDiv(RSum(ItemPositions, [i \in ItemPositions |-> agg_sentiments[i][field]]),
         <<Len(agg_items), 1>>)

\* r is a multiple of 0.0001 at most 0.00005 away from q
IsRounded4(r, q) ==
    /\ 10000 % r[2] = 0
    /\ RLeq(RSub(r, q), <<1, 20000>>)
    /\ RLeq(RSub(q, r), <<1, 20000>>)

\* C12: whenever the input is not empty and some item has a positive emotion
\* fraction, the 8 corpus-level emotion values returned sum to exactly 1.
C12_CorpusEmotionsSumToOne ==
    (/\ Aggregated
     /\ \E i \in ItemPositions : \E e \in Categories :
            RLt(<<0, 1>>, agg_emotions[i].scores[e]))
        => /\ DOMAIN agg_result.emotions = Categories
           /\ RSum(Categories, agg_result.emotions) = <<1, 1>>

\* C13: the corpus positive, neutral, negative and compound values are the
\* means over all items rounded to 4 decimals, and items_analyzed is the
\* number of items.
C13_SentimentMeans ==
    Aggregated =>
        /\ agg_result.items_analyzed = Len(agg_items)
        /\ DOMAIN agg_result.sentiment = {"positive", "neutral", "negative"}
        /\ \A k \in DOMAIN agg_result.sentiment :
               IsRounded4(agg_result.sentiment[k], FieldMean(k))
        /\ IsRounded4(agg_result.avg_compound, FieldMean("compound"))

\* Three items gave a positive mean that rounding changed and a negative
\* compound mean that rounding changed.
C13_Witness ==
    /\ Aggregated
    /\ Len(agg_items) = 3
    /\ agg_result.sentiment["positive"] # FieldMean("positive")
    /\ RLt(agg_result.avg_compound, <<0, 1>>)
    /\ agg_result.avg_compound # FieldMean("compound")

\* positions of the items of one source category
PositionsOf(cat) == {i \in ItemPositions : agg_items[i].source_category = cat}

FirstPosition(cat) == CHOOSE i \in PositionsOf(cat) : \A j \in PositionsOf(cat) : i <= j

BreakdownPositions == 1..Len(agg_result.source_breakdown)

\* C14: the per-source breakdown has exactly one entry for each source
\* category among the items, in the order the categories first occur; an
\* entry's count is the number of items of its category, the counts add up to
\* items_analyzed, and its weight is the configured weight of the category,
\* 0 when none is configured.
C14_BreakdownPartitions ==
    Aggregated =>
        LET b == agg_result.source_breakdown
        IN  /\ {b[g].source : g \in BreakdownPositions} =
                   {agg_items[i].source_category : i \in ItemPositions}
            /\ \A g, h \in BreakdownPositions :
                   g < h => FirstPosition(b[g].source) < FirstPosition(b[h].source)
            /\ \A g \in BreakdownPositions :
                   /\ b[g].count = Cardinality(PositionsOf(b[g].source))
                   /\ b[g].weight = IF b[g].source \in DOMAIN source_weights
                                    THEN source_weights[b[g].source]
                                    ELSE <<0, 1>>
            /\ RSum(BreakdownPositions,
                    [g \in BreakdownPositions |-> <<b[g].count, 1>>]) =
                   <<agg_result.items_analyzed, 1>>

\* Three items rss_news, reddit, rss_news gave the entries rss_news (count 2,
\* configured weight) and reddit (count 1, weight 0) in that order.
C14_Witness ==
    /\ Aggregated
    /\ Len(agg_items) = 3
    /\ agg_items[1].source_category = "rss_news"
    /\ agg_items[2].source_category = "reddit"
    /\ agg_items[3].source_category = "rss_news"
    /\ Len(agg_result.source_breakdown) = 2
    /\ agg_result.source_breakdown[1].source = "rss_news"
    /\ agg_result.source_breakdown[1].count = 2
    /\ agg_result.source_breakdown[1].weight = R(3, 2)
    /\ agg_result.source_breakdown[2].weight = <<0, 1>>

\* position of a category in the fixed order
CategoryIndex(c) == CHOOSE i \in 1..Len(EMOTION_CATEGORIES) : EMOTION_CATEGORIES[i] = c

\* d has the greatest fraction and is the first category that has it
IsFirstGreatest(scores, d) ==
    /\ d \in Categories
    /\ \A c \in Categories : RLeq(scores[c], scores[d])
    /\ \A c \in Categories :
           CategoryIndex(c) < CategoryIndex(d) => RLt(scores[c], scores[d])

\* the lexicon words of a text, each with the categories it is listed under
LexiconHits(text) ==
    LET words == FindWords(LowerText(text))
    IN  {<<i, e>> \in (1..Len(words)) \X Categories :
            \E k \in DOMAIN WORD_TO_EMOTIONS(words[i]) : WORD_TO_EMOTIONS(words[i])[k] = e}

\* C15: the dominant category is the one with the greatest fraction, the
\* first one in the fixed category order among equals: for the lexicon
\* classifier on a text with at least one hit, and for the corpus-level
\* dominant emotion of the Aggregator.
C15_DominantIsFirstGreatest ==
    /\ \A i \in ItemPositions :
           LexiconHits(agg_items[i].text) # {} =>
               IsFirstGreatest(agg_emotions[i].scores, agg_emotions[i].dominant_emotion)
    /\ Aggregated =>
           IsFirstGreatest(agg_result.emotions, agg_result.dominant_emotion)

\* "Sad joy" got joy although sadness has the same fraction and its word comes
\* first, and two categories shared the greatest corpus-level value.
C15_Witness ==
    /\ Aggregated
    /\ \E i \in ItemPositions :
           /\ agg_emotions[i].dominant_emotion = "joy"
           /\ agg_emotions[i].scores["sadness"] = agg_emotions[i].scores["joy"]
    /\ \E c \in Categories \ {agg_result.dominant_emotion} :
           agg_result.emotions[c] = agg_result.emotions[agg_result.dominant_emotion]

(***************************************************************************)
(* Properties of the EmotionAnalyzer                                       *)
(***************************************************************************)
LexiconDone == emo_pc = "done" /\ mode = "lightweight"

\* hits of the analysed text in one category, and in all
HitsIn(e) == Cardinality({h \in LexiconHits(emo_text) : h[2] = e})

HitsTotal == Cardinality(LexiconHits(emo_text))

\* C16 as stated: with no lexicon token the result is 0.125 for every category
\* and the dominant label "neutral"; with at least one hit every category's
\* fraction is its hit count divided by the total number of hits and the
\* dominant label is one of the 8 categories.
C16_ExactFractions ==
    LexiconDone =>
        /\ HitsTotal = 0 =>
               /\ \A e \in Categories : emotion_result.scores[e] = R(1, 8)
               /\ emotion_result.dominant_emotion = "neutral"
        /\ HitsTotal > 0 =>
               /\ \A e \in Categories : emotion_result.scores[e] = R(HitsIn(e), HitsTotal)
               /\ emotion_result.dominant_emotion \in Categories

\* C16: with no lexicon token the result is 0.125 for every category and the
\* dominant label "neutral"; with at least one hit every category's fraction
\* is its hit count divided by the total number of hits, rounded to 4
\* decimals, a word listed under several categories counting once for each,
\* and the dominant label is one of the 8 categories, never "neutral".
C16_RoundedFractions ==
    LexiconDone =>
        /\ DOMAIN emotion_result.scores = Categories
        /\ HitsTotal = 0 =>
               /\ \A e \in Categories : emotion_result.scores[e] = R(1, 8)
               /\ emotion_result.dominant_emotion = "neutral"
        /\ HitsTotal > 0 =>
               /\ \A e \in Categories :
                      IsRounded4(emotion_result.scores[e], R(HitsIn(e), HitsTotal))
               /\ emotion_result.dominant_emotion \in Categories

\* A text with three hits in three categories got 0.3333 for each of them,
\* not 1/3, and the first of them as its dominant label.
C16_Witness ==
    /\ LexiconDone
    /\ HitsTotal = 3
    /\ HitsIn("joy") = 1
    /\ emotion_result.scores["joy"] = R(3333, 10000)
    /\ emotion_result.scores["sadness"] = R(3333, 10000)
    /\ emotion_result.dominant_emotion = "joy"

\* C17: in both strategies the returned distribution has exactly the 8
\* categories, every fraction lies in [0, 1], and the fractions sum to 1
\* within 0.01.
C17_Distribution ==
    emo_pc = "done" =>
        /\ DOMAIN emotion_result.scores = Categories
        /\ \A e \in Categories :
               /\ RLeq(<<0, 1>>, emotion_result.scores[e])
               /\ RLeq(emotion_result.scores[e], <<1, 1>>)
        /\ RLeq(RSub(RSum(Categories, emotion_result.scores), <<1, 1>>), <<1, 100>>)
        /\ RLeq(RSub(<<1, 1>>, RSum(Categories, emotion_result.scores)), <<1, 100>>)

\* The model strategy returned fractions whose sum is not exactly 1 from
\* scores of which the neutral label held a part.
C17_Witness ==
    /\ emo_pc = "done"
    /\ mode = "deep"
    /\ RLt(<<0, 1>>, pipeline_results["neutral"])
    /\ RSum(Categories, emotion_result.scores) # <<1, 1>>

(***************************************************************************)
(* Properties of the TextCleaner                                           *)
(***************************************************************************)
CleanDone == clean_pc = "done"

\* the input is missing or empty
InputAbsent == clean_text = None \/ clean_text = <<>>

\* clean returned a string
Returned == CleanDone /\ cleaned # None

HasAt(s, i, p) == i + Len(p) - 1 <= Len(s) /\ SubSeq(s, i, i + Len(p) - 1) = p

\* s has "http://", "https://", or "www." followed by a non-space character
HasUrlLike(s) ==
    \E i \in DOMAIN s :
        \/ HasAt(s, i, <<"h", "t", "t", "p", ":", "/", "/">>)
        \/ HasAt(s, i, <<"h", "t", "t", "p", "s", ":", "/", "/">>)
        \/ /\ HasAt(s, i, <<"w", "w", "w", ".">>)
           /\ i + 4 <= Len(s)
           /\ s[i + 4] \notin SpaceChars

\* C19: a returned string contains no "<" and no ">" and no URL-like
\* substring, also when the markup or the URL is in the text only after the
\* character references are decoded.
C19_NoMarkupNoUrl ==
    Returned =>
        /\ \A i \in DOMAIN cleaned : cleaned[i] \notin {"<", ">"}
        /\ ~HasUrlLike(cleaned)

\* A text whose URL and whose tag delimiters are written as character
\* references only was returned without them.
C19_Witness ==
    /\ Returned
    /\ Len(cleaned) > 0
    /\ "&" \in Range(clean_text)
    /\ \/ /\ "/" \notin Range(clean_text)
          /\ HasUrlLike(Unescape(clean_text))
       \/ /\ "<" \notin Range(clean_text)
          /\ "<" \in Range(Unescape(clean_text))

\* s has two whitespace characters in a row
HasSpaceRun(s) == \E i \in 1..(Len(s) - 1) : s[i] \in SpaceChars /\ s[i + 1] \in SpaceChars

LeadingSpace(s) == s # <<>> /\ s[1] \in SpaceChars

TrailingSpace(s) == s # <<>> /\ s[Len(s)] \in SpaceChars

\* C20 as stated: a returned string has no run of two or more whitespace
\* characters and no leading or trailing whitespace, for every max_length.
C20_NoExtraWhitespace ==
    Returned =>
        /\ ~HasSpaceRun(cleaned)
        /\ ~LeadingSpace(cleaned)
        /\ ~TrailingSpace(cleaned)

\* C20: a returned string has no run of two or more whitespace characters and
\* no leading whitespace; it has no trailing whitespace when the collapsed
\* and trimmed text was not longer than max_length, and a string that was cut
\* ends in at most one space.
C20_NoExtraWhitespaceUnlessCut ==
    Returned =>
        /\ ~HasSpaceRun(cleaned)
        /\ ~LeadingSpace(cleaned)
        /\ Len(cleanLocals.normalized) <= max_length => ~TrailingSpace(cleaned)
        /\ TrailingSpace(cleaned) => cleaned[Len(cleaned)] = " "

\* A text with leading, trailing and repeated whitespace that fitted into
\* max_length was returned collapsed and trimmed.
C20_Witness ==
    /\ Returned
    /\ LeadingSpace(clean_text)
    /\ TrailingSpace(clean_text)
    /\ HasSpaceRun(clean_text)
    /\ Len(cleanLocals.normalized) <= max_length
    /\ Len(cleaned) > 1
    /\ \E i \in DOMAIN cleaned : cleaned[i] = " "

(***************************************************************************)
(* Properties of the ProcessingPipeline                                    *)
(***************************************************************************)
Processed == pipe_pc # "ready"

\* the normalizer's output for a title or text, None when it is absent
Normalized(text) == clean(10, 5000, text).result

Survives(text) == text # None /\ Normalized(text) # None

PassedOn(i) == i \in Range(pipe_passed)

\* C21: process drops an item at the cleaning step exactly when neither its
\* text nor its title survives cleaning (the title missing, empty or absent
\* after cleaning); every other item is handed to the Deduplicator, and the
\* items handed on stand in their input order.
C21_DroppedIffNothingSurvives ==
    Processed =>
        /\ \A i \in 1..Len(pipe_input) :
               ~PassedOn(i) <=>
                   (~Survives(pipe_input[i].text) /\ ~Survives(pipe_input[i].title))
        /\ Len(pipe_cleaned) = Len(pipe_passed)
        /\ \A k \in 1..Len(pipe_passed) :
               /\ pipe_passed[k] \in 1..Len(pipe_input)
               /\ k > 1 => pipe_passed[k - 1] < pipe_passed[k]
               /\ pipe_cleaned[k].source_category =
                      pipe_input[pipe_passed[k]].source_category

\* a call that dropped its first item and handed on its second, whose text
\* did not survive cleaning but whose title did
C21_Witness ==
    /\ Processed
    /\ Len(pipe_input) = 2
    /\ ~PassedOn(1)
    /\ pipe_input[1].title # None
    /\ PassedOn(2)
    /\ ~Survives(pipe_input[2].text)

\* the input item that the k-th returned item was
OriginOf(k) == pipe_input[pipe_passed[pipe_kept[k]]]

\* C22: every item process returns carries the normalizer's output for its
\* original text (empty when that is absent) and, when it had a title, the
\* normalizer's output for its original title; no raw title or text whose
\* cleaned version is absent stays on it.
C22_ReturnedItemsAreCleaned ==
    Processed =>
        \A k \in 1..Len(pipe_unique) :
            /\ pipe_unique[k].text =
                   IF Survives(OriginOf(k).text)
                   THEN Normalized(OriginOf(k).text) ELSE <<>>
            /\ (OriginOf(k).title # None /\ OriginOf(k).title # <<>>) =>
                   pipe_unique[k].title = Normalized(OriginOf(k).title)

(***************************************************************************)
(* Properties of the Deduplicator, continued                               *)
(***************************************************************************)
\* the items returned so far in the session
KeptInSession == keptBefore \cup Range(lastUnique)

NonBlank(items) == SelectSeq(items, LAMBDA x : ~IsBlank(x))

\* C23: an item whose combined title and text is empty or whitespace only is
\* never returned and leaves no trace: every recorded digest is that of a
\* returned, non-blank item, and the call returns what it would return with
\* the blank items taken out of its argument.
C23_BlankItemsLeaveNoTrace ==
    /\ \A u \in Range(lastUnique) : ~IsBlank(u)
    /\ seen_hashes = { content_hash(combined_text(k)) : k \in KeptInSession }
    /\ lastUnique =
           deduplicate({ content_hash(combined_text(k)) : k \in keptBefore },
                       similarity_threshold, NonBlank(lastItems)).unique

\* a call handed a blank item and, after it, an item whose canonical text is
\* as empty as the blank item's, and returned the latter
C23_Witness ==
    \E i, j \in 1..Len(lastItems) :
        /\ i < j
        /\ IsBlank(lastItems[i])
        /\ Canon(lastItems[j]) = Canon(lastItems[i])
        /\ j \in Range(lastIdx)

(***************************************************************************)
(* Properties of the EmotionAnalyzer, continued                            *)
(***************************************************************************)
\* C24: when an analyzer is constructed in deep mode and the model cannot
\* initialize, the dependency missing or the model not loadable, the
\* constructor returns, the mode is the lexicon strategy and every analyze
\* call is answered by the lexicon strategy.
C24_DeepModeFallsBack ==
    (requested_mode = "deep" /\ init_outcome # "ok") =>
        /\ emo_pc # "raised"
        /\ mode = "lightweight"
        /\ emo_pc = "done" => emotion_result = analyze_lexicon(emo_text)

(***************************************************************************)
(* Properties of the LooshIndexCalculator, continued                       *)
(***************************************************************************)
\* C25: no Calculator whose polarity table is empty or leaves out one of
\* the eight categories exists after construction, so none has answered a
\* calculate call.
C25_NoScoreFromPartialTable ==
    (calc_pc = "done" /\ aggregated.items_analyzed > 0) =>
        /\ config.emotion_polarity # EmptyDict
        /\ Categories \subseteq DOMAIN config.emotion_polarity

\* C26: on zero-length input every stage returns normally with an empty
\* result: clean_batch, deduplicate, process and both analyze_batch calls
\* return the empty list, deduplicate leaving the recorded digests as they
\* were, and aggregate returns items_analyzed = 0 with no source_breakdown
\* entry.
C26_EmptyInputEmptyOutput ==
    /\ (pipe_input = <<>> /\ batch_pc = "done") => batch_out = <<>>
    /\ (pipe_input = <<>> /\ Processed) => pipe_cleaned = <<>>
    /\ (pipe_cleaned = <<>> /\ Processed) =>
           /\ pipe_unique = <<>>
           /\ pipe_seen = pipe_seen0
    /\ (pipe_unique = <<>> /\ pipe_pc \in {"analyzed", "aggregated"}) =>
           /\ pipe_sentiments = <<>>
           /\ pipe_emotions = <<>>
    /\ (pipe_unique = <<>> /\ pipe_pc = "aggregated") =>
           /\ pipe_result.items_analyzed = 0
           /\ pipe_result.source_breakdown = <<>>

\* every stage has run on the empty list, on a pipeline whose Deduplicator
\* had recorded a digest before
C26_Witness ==
    /\ pipe_input = <<>>
    /\ pipe_seen0 # {}
    /\ batch_pc = "done"
    /\ pipe_pc = "aggregated"

(***************************************************************************)
(* Properties of two interleaved deduplicate calls                         *)
(***************************************************************************)
BothReturned == \A t \in Threads : race_pc[t] = "returned"

SameCanon(us, vs) ==
    \E a \in Range(us), b \in Range(vs) : Canon(a) = Canon(b)

\* both calls returned an item with the same canonical content
CrossDuplicate == SameCanon(race_unique["t1"], race_unique["t2"])

\* the two calls run one after the other on a new Deduplicator, first then
\* second, return items with the same canonical content
SequentialDuplicate(first, second) ==
    LET r1 == deduplicate({}, similarity_threshold, race_items[first])
        r2 == deduplicate(r1.seen, similarity_threshold, race_items[second])
    IN  SameCanon(r1.unique, r2.unique)

\* C27: two deduplicate calls on a shared Deduplicator return items with the
\* same canonical content only when one call tested a digest between the
\* other's test and recording of it, and neither sequential order of the two
\* calls returns such a pair.
C27_DuplicateOnlyByInterleaving ==
    (BothReturned /\ CrossDuplicate) =>
        /\ raced
        /\ ~SequentialDuplicate("t1", "t2")
        /\ ~SequentialDuplicate("t2", "t1")

\* both calls have returned, each with an item of the same canonical content
C27_Witness ==
    /\ BothReturned
    /\ CrossDuplicate
    /\ raced

(***************************************************************************)
(* Properties of the canonical form                                        *)
(***************************************************************************)
IsAlnum(c) == c \in KeptChars /\ c # " "

\* the maximal runs of [a-z0-9] of s, in order; cur is the run being read
RECURSIVE SplitWords(_, _)
SplitWords(s, cur) ==
    LET done == IF cur = <<>> THEN <<>> ELSE <<cur>>
    IN  IF s = <<>> THEN done
        ELSE IF IsAlnum(Head(s)) THEN SplitWords(Tail(s), Append(cur, Head(s)))
        ELSE done \o SplitWords(Tail(s), <<>>)

\* the words with one space between neighbours
RECURSIVE JoinWords(_)
JoinWords(ws) ==
    IF ws = <<>> THEN <<>>
    ELSE IF Len(ws) = 1 THEN ws[1]
    ELSE ws[1] \o <<" ">> \o JoinWords(Tail(ws))

LowerAll(text) == [i \in 1..Len(text) |-> Lower(text[i])]

Idempotent(text) ==
    normalize_for_hash(normalize_for_hash(text)) = normalize_for_hash(text)

OnlyKeptChars(text) ==
    \A k \in 1..Len(normalize_for_hash(text)) : normalize_for_hash(text)[k] \in KeptChars

\* the combined texts handed to the latest deduplicate call
HandledTexts == { combined_text(lastItems[i]) : i \in 1..Len(lastItems) }

\* C28 as stated: the canonical form is the lower-cased text with every
\* character outside [a-z0-9 ] deleted, its neighbours becoming adjacent,
\* and whitespace runs collapsed; it is idempotent and made of [a-z0-9 ] only.
C28_PunctuationDeleted ==
    \A t \in HandledTexts :
        /\ normalize_for_hash(t) = normalize_for_hash_delete(t)
        /\ Idempotent(t)
        /\ OnlyKeptChars(t)

\* C28, amended: every character outside [a-z0-9 ] is replaced by a space,
\* so the canonical form is the lower-cased text's runs of [a-z0-9] with one
\* space between neighbours; it is idempotent and made of [a-z0-9 ] only.
C28_PunctuationSeparates ==
    \A t \in HandledTexts :
        /\ normalize_for_hash(t) = JoinWords(SplitWords(LowerAll(t), <<>>))
        /\ Idempotent(t)
        /\ OnlyKeptChars(t)

\* a text with a punctuation mark between two letters and one with
\* upper-case letters were canonicalized
C28_Witness ==
    /\ \E t \in HandledTexts :
           \E k \in 2..(Len(t) - 1) :
               /\ t[k] \notin KeptChars
               /\ IsAlnum(t[k - 1])
               /\ IsAlnum(t[k + 1])
    /\ \E t \in HandledTexts : LowerAll(t) # t

(***************************************************************************)
(* Properties of the recorded digests                                      *)
(***************************************************************************)
\* the number of items returned since construction or the latest reset
ReturnedInSession == Cardinality(keptBefore) + Len(lastUnique)

\* C29: the Deduplicator holds as many digests as deduplicate has returned
\* items since construction or the latest reset, and the digest of every
\* item returned by the latest call is among them; an item that was dropped
\* added none.
C29_OneDigestPerReturnedItem ==
    /\ Cardinality(seen_hashes) = ReturnedInSession
    /\ \A u \in Range(lastUnique) : content_hash(combined_text(u)) \in seen_hashes

\* a call returned an item and dropped, as a near-duplicate, an item whose
\* digest is therefore not recorded
C29_Witness ==
    /\ lastUnique # <<>>
    /\ \E i \in 1..Len(lastItems) :
           /\ i \notin Range(lastIdx)
           /\ ~IsBlank(lastItems[i])
           /\ content_hash(combined_text(lastItems[i])) \notin seen_hashes

(***************************************************************************)
(* Properties of the breakdown                                             *)
(***************************************************************************)
ReportedBreakdown == score.components.emotion_breakdown

\* the sum of the contributions the breakdown reports
ContributionSum ==
    RSum(DOMAIN ReportedBreakdown,
         [e \in DOMAIN ReportedBreakdown |-> ReportedBreakdown[e].contribution])

\* |q - r| <= tol
Within(q, r, tol) == RLeq(RSub(q, r), tol) /\ RLeq(RSub(r, q), tol)

\* half a unit of the fourth decimal for the signal and for each contribution
RoundingSlack == <<Cardinality(DOMAIN ReportedBreakdown) + 1, 20000>>

\* C30: whenever items were analyzed, the emotion_signal of the breakdown is
\* the sum of the contributions of its emotion_breakdown, up to the rounding
\* to four decimals of each, also when the source-weighted override applies.
C30_SignalIsSumOfContributions ==
    Scoring =>
        Within(score.components.emotion_signal, ContributionSum, RoundingSlack)

====
